---- MODULE Spec2Model ----
(***************************************************************************)
(* State-machine model of WorkspacesService (workspaces.service.ts) of the *)
(* eduty-api repository.  The relational database is the state; every      *)
(* service method is one action that runs the whole handler.               *)
(***************************************************************************)
EXTENDS Integers, Sequences, FiniteSets, Bags, TLC

\* ------------------------------------------------------------------ bounds
NumUsers == 2
\* Spec: workspaces ever created, EnrollmentRequest rows
MaxWorkspaces == 2
MaxEnrollmentRequests == 2
\* SpecInvite: workspaces ever created, Invitation rows
InviteWorkspaces == 1
MaxInvitations == 1
\* SpecFavorite: workspaces ever created, EnrollmentRequest rows
FavoriteWorkspaces == 3
FavoriteRequests == 3

\* SpecRoster: workspaces ever created, months, days of the month, assignments
\* in one saveRoster call
RosterWorkspaces == 1
MaxMonth == 2
MaxDay == 1
MaxAssignments == 2
\* SpecPublished: workspaces ever created, EnrollmentRequest and Roster rows
PublishedWorkspaces == 2
PublishedRequests == 2
MaxRosters == 2
\* SpecLeave: workspaces ever created, EnrollmentRequest rows, days,
\* LeaveRequest rows
LeaveWorkspaces == 1
LeaveEnrollmentRequests == 1
MaxLeaveDay == 3
MaxLeaveRequests == 2
OwnerWorkspaces == 1
OwnerRequests == 1
OwnerRosters == 1
OwnerLeaveRequests == 1
MaxInflight == 2
RaceWorkspaces == 1
RaceRequests == 2
GuardWorkspaces == 1
GuardRequests == 1
SearchWorkspaces == 21
RenamedWorkspaces == 2
MaxQueryLen == 2
RaceInvitations == 2
RaceCells == 1

Users == 1..NumUsers
WorkspaceIds == 1..MaxWorkspaces
NoId == 0

\* ------------------------------------------------------------------ state
VARIABLES
  workspaces,          \* set of Workspace rows [id, ownerId]
  nextWorkspaceId,     \* the next fresh primary key of the workspaces table
  enrollments,         \* Enrollment rows: enrollments[userId] lists the workspaceId
                       \* of each row of the user, in enrolledAt order
  enrollmentRequests,  \* bag of EnrollmentRequest rows [workspaceId, userId, status]
  userFavorites,       \* bag of UserFavorite rows [userId, workspaceId]
  invitations,         \* bag of Invitation rows [workspaceId, inviteeEmail, status]
  rosters,             \* set of Roster rows [workspaceId, month, year, status]
  rosterAssignments,   \* set of RosterAssignment rows
                       \* [rosterId, userId, day, shiftPeriod, dutyType, isOvertime]
  leaveRequests,       \* bag of LeaveRequest rows
                       \* [workspaceId, userId, startDate, endDate, status]
  inflight,            \* the calls that are between two of their database
                       \* statements: inflight[slot] is the call's position
                       \* (pc) and what it has read so far
  last                 \* the last call: [op, userId, workspaceId, args, result, ret, rows]

\* The tables of membership and the tables of rosters and leave.
memberVars == <<workspaces, nextWorkspaceId, enrollments, enrollmentRequests,
                userFavorites, invitations>>
scheduleVars == <<rosters, rosterAssignments, leaveRequests>>
dbVars == <<memberVars, scheduleVars>>
vars == <<workspaces, nextWorkspaceId, enrollments, enrollmentRequests,
          userFavorites, invitations, rosters, rosterAssignments, leaveRequests,
          inflight, last>>

\* ------------------------------------------------------------ bag helpers
BagAdd(B, x) == B (+) SetToBag({x})
BagRemoveOne(B, x) == B (-) SetToBag({x})
\* The bag without every copy of the rows in removed.
BagRemoveAll(B, removed) == [r \in DOMAIN B \ removed |-> B[r]]

\* --------------------------------------------------------------- e-mails
\* An e-mail string is its mailbox plus what toLowerCase() and trim() can see:
\* whether it holds an upper-case letter and whether it has outer whitespace.
Email(mailbox, upper, padded) ==
  [mailbox |-> mailbox, upper |-> upper, padded |-> padded]
\* Mutant: capitals are kept.
toLowerCase_identity(e) == e
toLowerCase(e) == [e EXCEPT !.upper = FALSE]
trim(e) == [e EXCEPT !.padded = FALSE]
\* The identity provider's e-mail of user u (req.user.email).
UserEmail(u) == Email(u, FALSE, FALSE)

\* ------------------------------------------------------------ repositories
WorkspaceFindOne(id) == {w \in workspaces : w.id = id}
\* Mutant: every workspace is taken to be owned by user 2.
OwnerOf_second(id) == 2
OwnerOf(id) == (CHOOSE w \in workspaces : w.id = id).ownerId

\* Mutant: the query finds no row.
EnrollmentFindOne_none(enrs, workspaceId, userId) == {}
\* enrollmentRepository.findOne({ where: { workspaceId, userId } }): the
\* positions of the matching rows among the user's rows.
EnrollmentFindOne(enrs, workspaceId, userId) ==
  {i \in DOMAIN enrs[userId] : enrs[userId][i] = workspaceId}
\* enrollmentRepository.save(create({ workspaceId, userId })): enrolledAt is the
\* insertion time, so the new row is the user's youngest.
EnrollmentSave(enrs, workspaceId, userId) ==
  [enrs EXCEPT ![userId] = Append(@, workspaceId)]
\* enrollmentRepository.remove(the rows of one workspace and user)
EnrollmentRemove(enrs, workspaceId, userId) ==
  [enrs EXCEPT ![userId] = SelectSeq(@, LAMBDA w : w # workspaceId)]
\* Mutant: the enrollments of the workspace are kept.
EnrollmentRemoveAll_none(enrs, workspaceId) == enrs
\* enrollmentRepository.remove(find({ where: { workspaceId } }))
EnrollmentRemoveAll(enrs, workspaceId) ==
  [u \in DOMAIN enrs |-> SelectSeq(enrs[u], LAMBDA w : w # workspaceId)]
\* Mutant: the order is enrolledAt DESC.
FirstEnrollmentOf_youngest(enrs, userId) ==
  IF enrs[userId] = <<>> THEN {} ELSE {enrs[userId][Len(enrs[userId])]}

\* enrollmentRepository.findOne({ where: { userId }, order: { enrolledAt: 'ASC' } }):
\* the workspaceId of the user's oldest row.
FirstEnrollmentOf(enrs, userId) ==
  IF enrs[userId] = <<>> THEN {} ELSE {Head(enrs[userId])}

RequestRow(workspaceId, userId, status) ==
  [workspaceId |-> workspaceId, userId |-> userId, status |-> status]
NoRequest == RequestRow(NoId, NoId, "none")
FavoriteRow(userId, workspaceId) ==
  [userId |-> userId, workspaceId |-> workspaceId]
\* userFavoriteRepository.findOne({ where: { userId } })
FavoriteFindOne(favs, userId) == {f \in DOMAIN favs : f.userId = userId}

\* The last call: its arguments, how it ended (result), the row it returned
\* (ret) or the list it returned (rows).
NoArgs == [month |-> NoId, year |-> NoId, assignments |-> <<>>]
Call(op, userId, workspaceId, result, ret) ==
  [op |-> op, userId |-> userId, workspaceId |-> workspaceId, args |-> NoArgs,
   result |-> result, ret |-> ret, rows |-> {}]
\* A call that names a month.
RosterCall(op, userId, workspaceId, month, year, assignments, result, rows) ==
  [op |-> op, userId |-> userId, workspaceId |-> workspaceId,
   args |-> [month |-> month, year |-> year, assignments |-> assignments],
   result |-> result, ret |-> NoId, rows |-> rows]
\* A handler that throws before its first write: only the error is recorded.
Throws(op, result) ==
  /\ last' = Call(op, NoId, NoId, result, NoId)
  /\ UNCHANGED <<dbVars, inflight>>

\* A call between two of its awaited database statements: pc names the next
\* statement, the other fields are the arguments and what the call has read.
\* row is the row the call loaded first or is about to insert.
InflightCall(op, pc, userId, workspaceId, ownerId, row) ==
  [op |-> op, pc |-> pc, userId |-> userId, workspaceId |-> workspaceId,
   ownerId |-> ownerId, row |-> row]
Slots == 1..MaxInflight
Idle == InflightCall("idle", "idle", NoId, NoId, NoId, NoRequest)
\* The call of the slot moves on to its next statement.
Goto(slot, pc) ==
  /\ inflight' = [inflight EXCEPT ![slot].pc = pc]
  /\ UNCHANGED last
\* The call of the slot returns, or throws, and writes nothing more.
Return(slot, result) ==
  /\ inflight' = [inflight EXCEPT ![slot] = Idle]
  /\ last' = Call(inflight[slot].op, inflight[slot].userId,
                  inflight[slot].workspaceId, result, NoId)

Init ==
  /\ workspaces = {}
  /\ nextWorkspaceId = 1
  /\ enrollments = [u \in Users |-> <<>>]
  /\ enrollmentRequests = EmptyBag
  /\ userFavorites = EmptyBag
  /\ invitations = EmptyBag
  /\ rosters = {}
  /\ rosterAssignments = {}
  /\ leaveRequests = EmptyBag
  /\ inflight = [slot \in Slots |-> Idle]
  /\ last = Call("none", NoId, NoId, "ok", NoId)

\* ------------------------------------------------------------- favorites
\* Mutant: no test for an existing favorite.
autoSetFirstFavorite_always(favs, enrs, userId) ==
  LET first == FirstEnrollmentOf(enrs, userId)
  IN IF first # {} THEN BagAdd(favs, FavoriteRow(userId, CHOOSE w \in first : TRUE))
     ELSE favs

\* Mutant: nothing is set.
autoSetFirstFavorite_never(favs, enrs, userId) == favs

autoSetFirstFavorite(favs, enrs, userId) ==
  IF FavoriteFindOne(favs, userId) # {} THEN favs
  ELSE LET first == FirstEnrollmentOf(enrs, userId)
       IN IF first # {}
          THEN BagAdd(favs, FavoriteRow(userId, CHOOSE w \in first : TRUE))
          ELSE favs

shiftFavoriteToNext(favs, enrs, userId, removedWorkspaceId) ==
  LET found == FavoriteFindOne(favs, userId)
  IN IF found = {} THEN favs
     ELSE LET favorite == CHOOSE f \in found : TRUE
              next == FirstEnrollmentOf(enrs, userId)
          IN IF favorite.workspaceId # removedWorkspaceId THEN favs
             ELSE IF next # {}
             THEN BagAdd(BagRemoveOne(favs, favorite),
                         FavoriteRow(userId, CHOOSE w \in next : TRUE))
             ELSE BagRemoveOne(favs, favorite)

\* ------------------------------------------------------------ workspaces
\* A workspace row.  name stands for the columns UpdateWorkspaceDto can set.
WorkspaceRow(id, ownerId, name) == [id |-> id, ownerId |-> ownerId, name |-> name]
\* The names a workspace is given: the one create stores and the one update
\* changes it to.
Names == {"Ward A", "Ward B"}

create(ownerId) ==
  /\ workspaces' = workspaces \cup {WorkspaceRow(nextWorkspaceId, ownerId, "Ward A")}
  /\ nextWorkspaceId' = nextWorkspaceId + 1
  /\ last' = Call("create", ownerId, nextWorkspaceId, "ok", nextWorkspaceId)
  /\ UNCHANGED <<inflight, scheduleVars, enrollments, enrollmentRequests, userFavorites, invitations>>

\* findOne(id, ownerId) and then Object.assign(workspace, updateWorkspaceDto).
update(id, name, ownerId) ==
  IF WorkspaceFindOne(id) = {} THEN Throws("update", "NotFound")
  ELSE IF OwnerOf(id) # ownerId THEN Throws("update", "Forbidden")
  ELSE /\ workspaces' = (workspaces \ WorkspaceFindOne(id))
                          \cup {WorkspaceRow(id, ownerId, name)}
       /\ last' = Call("update", ownerId, id, "ok", id)
       /\ UNCHANGED <<inflight, scheduleVars, nextWorkspaceId, enrollments, enrollmentRequests,
                      userFavorites, invitations>>

\* The body of PATCH /workspaces/:id as the client sends it: name, or
\* "undefined" when it has none, and an ownerId property, NoId when it has
\* none, which UpdateWorkspaceDto does not declare.
UpdateWorkspaceBody(name, ownerId) == [name |-> name, ownerId |-> ownerId]
\* Mutant: properties the DTO does not declare pass.
NonWhitelisted_none(body) == FALSE
\* ValidationPipe({ whitelist: true, forbidNonWhitelisted: true }): whether
\* the body holds a property that UpdateWorkspaceDto does not declare.
NonWhitelisted(body) == body.ownerId # NoId
\* Object.assign(workspace, updateWorkspaceDto)
ObjectAssign(workspace, dto) ==
  [workspace EXCEPT !.name = IF dto.name = "undefined" THEN @ ELSE dto.name,
                    !.ownerId = IF dto.ownerId = NoId THEN @ ELSE dto.ownerId]

\* The route PATCH /workspaces/:id: the validation of the body, then
\* update(id, updateWorkspaceDto, req.user.id).
PatchWorkspace(id, body, ownerId) ==
  IF NonWhitelisted(body) THEN Throws("update", "BadRequest")
  ELSE IF WorkspaceFindOne(id) = {} THEN Throws("update", "NotFound")
  ELSE IF OwnerOf(id) # ownerId THEN Throws("update", "Forbidden")
  ELSE /\ workspaces' = (workspaces \ WorkspaceFindOne(id))
                          \cup {ObjectAssign(w, body) : w \in WorkspaceFindOne(id)}
       /\ last' = Call("update", ownerId, id, "ok", id)
       /\ UNCHANGED <<inflight, scheduleVars, nextWorkspaceId, enrollments, enrollmentRequests,
                      userFavorites, invitations>>

\* The characters of a workspace name.
Chars(name) ==
  IF name = "Ward A" THEN <<"W", "a", "r", "d", " ", "A">>
  ELSE <<"W", "a", "r", "d", " ", "B">>
\* What a search is asked for: the text of the id of workspace id (uuid), or
\* a text that is not UUID-shaped, as its characters.
Query(uuid, id, text) == [uuid |-> uuid, id |-> id, text |-> text]
\* PostgreSQL's  text LIKE pattern : % stands for any run of characters, _ for
\* any one character, every other character for itself, letter case included.
RECURSIVE Like(_, _)
Like(text, pattern) ==
  IF pattern = <<>> THEN text = <<>>
  ELSE IF Head(pattern) = "%"
    THEN \E n \in 0..Len(text) : Like(SubSeq(text, n + 1, Len(text)), Tail(pattern))
  ELSE /\ text # <<>>
       /\ Head(pattern) = "_" \/ Head(text) = Head(pattern)
       /\ Like(Tail(text), Tail(pattern))
\* order: { createdAt: 'DESC' }: ids are handed out in creation order.
RECURSIVE NewestFirst(_)
NewestFirst(rows) ==
  IF rows = {} THEN <<>>
  ELSE LET newest == CHOOSE w \in rows : \A x \in rows : x.id <= w.id
       IN <<newest>> \o NewestFirst(rows \ {newest})
\* take: 20
Take == 20

\* searchWorkspaces(searchDto): the list found, recorded with the query.
searchWorkspaces(query) ==
  LET found ==
        IF query.uuid THEN NewestFirst(WorkspaceFindOne(query.id))
        ELSE LET rows == NewestFirst({w \in workspaces :
                           Like(Chars(w.name), <<"%">> \o query.text \o <<"%">>)})
             IN SubSeq(rows, 1, IF Len(rows) < Take THEN Len(rows) ELSE Take)
  IN /\ last' = [Call("searchWorkspaces", NoId, NoId, "ok", NoId)
                 EXCEPT !.rows = {[query |-> query, found |-> found]}]
     /\ UNCHANGED <<dbVars, inflight>>

\* Rows that reference workspace id through a foreign key declared without
\* onDelete (@ManyToOne(() => Workspace)): the database refuses to delete the
\* workspace while one of them exists.
WorkspaceReferenced(id) ==
  \/ \E r \in DOMAIN invitations : r.workspaceId = id
  \/ \E r \in rosters : r.workspaceId = id

\* The favorites after the loop of lines 128-130, which runs before the
\* enrollments are removed: one shiftFavoriteToNext per enrollment row of the
\* workspace, read against the enrollments as they still are.
ShiftFavoritesOfWorkspace(favs, enrs, id) ==
  LET shifted[n \in 0..NumUsers] ==
        IF n = 0 THEN favs
        ELSE IF EnrollmentFindOne(enrs, id, n) # {}
        THEN shiftFavoriteToNext(shifted[n - 1], enrs, n, id)
        ELSE shifted[n - 1]
  IN shifted[NumUsers]

\* fk is what the database does, when the workspace row is deleted, with the
\* rows that still point at it from the two tables whose entities declare their
\* relation outside these sources (UserFavorite, LeaveRequest).
remove(id, ownerId, fk) ==
  IF WorkspaceFindOne(id) = {} THEN Throws("remove", "NotFound")
  ELSE IF OwnerOf(id) # ownerId THEN Throws("remove", "Forbidden")
  ELSE
    LET favs == ShiftFavoritesOfWorkspace(userFavorites, enrollments, id)
        pointing == \/ \E f \in DOMAIN favs : f.workspaceId = id
                    \/ \E l \in DOMAIN leaveRequests : l.workspaceId = id
        blocked == WorkspaceReferenced(id) \/ (fk = "restrict" /\ pointing)
        cascades == ~blocked /\ fk = "cascade"
    IN /\ enrollmentRequests' =
            BagRemoveAll(enrollmentRequests,
                         {r \in DOMAIN enrollmentRequests : r.workspaceId = id})
       /\ enrollments' = EnrollmentRemoveAll(enrollments, id)
       /\ workspaces' = IF blocked THEN workspaces ELSE workspaces \ WorkspaceFindOne(id)
       /\ userFavorites' = IF cascades
                           THEN BagRemoveAll(favs, {f \in DOMAIN favs : f.workspaceId = id})
                           ELSE favs
       /\ leaveRequests' = IF cascades
                           THEN BagRemoveAll(leaveRequests,
                                  {l \in DOMAIN leaveRequests : l.workspaceId = id})
                           ELSE leaveRequests
       /\ last' = Call("remove", ownerId, id,
                       IF blocked THEN "InternalError" ELSE "ok", NoId)
       /\ UNCHANGED <<inflight, nextWorkspaceId, invitations, rosters, rosterAssignments>>

\* ------------------------------------------------- enrollment and requests
\* Mutant: the pending-request check finds nothing.
PendingRequestExists_never(workspaceId, userId) == FALSE

PendingRequestExists(workspaceId, userId) ==
  BagIn(RequestRow(workspaceId, userId, "pending"), enrollmentRequests)

\* Mutant: the caller is never taken for the owner.
IsOwner_never(workspaceId, userId) == FALSE

\* const isOwner = workspace.ownerId === userId
IsOwner(workspaceId, userId) == OwnerOf(workspaceId) = userId

requestEnrollment(workspaceId, userId) ==
  IF WorkspaceFindOne(workspaceId) = {}
  THEN Throws("requestEnrollment", "NotFound")
  ELSE IF EnrollmentFindOne(enrollments, workspaceId, userId) # {}
  THEN Throws("requestEnrollment", "Conflict")
  ELSE IF PendingRequestExists(workspaceId, userId)
  THEN Throws("requestEnrollment", "Conflict")
  ELSE
    /\ UNCHANGED <<inflight, scheduleVars, workspaces, nextWorkspaceId, invitations>>
    /\ IF IsOwner(workspaceId, userId)
       THEN /\ enrollments' = EnrollmentSave(enrollments, workspaceId, userId)
            /\ enrollmentRequests' =
                 BagAdd(enrollmentRequests, RequestRow(workspaceId, userId, "approved"))
            /\ userFavorites' = autoSetFirstFavorite(userFavorites, enrollments', userId)
            /\ last' = Call("requestEnrollment", userId, workspaceId, "enrolled",
                            Len(enrollments'[userId]))
       ELSE /\ enrollmentRequests' =
                 BagAdd(enrollmentRequests, RequestRow(workspaceId, userId, "pending"))
            /\ last' = Call("requestEnrollment", userId, workspaceId, "pending", NoId)
            /\ UNCHANGED <<inflight, scheduleVars, enrollments, userFavorites>>

\* Mutant: approve never finds the user's enrollment.
ExistingEnrollmentOf_none(request) == {}

\* Lines 337-343: the enrollment the request's user already holds.
ExistingEnrollmentOf(request) ==
  EnrollmentFindOne(enrollments, request.workspaceId, request.userId)

\* request is the row the id names, or NoRequest for an id that names no row.
approveEnrollmentRequest(request, ownerId) ==
  IF request = NoRequest
  THEN Throws("approveEnrollmentRequest", "NotFound")
  ELSE IF OwnerOf(request.workspaceId) # ownerId
  THEN Throws("approveEnrollmentRequest", "Forbidden")
  ELSE IF request.status # "pending"
  THEN Throws("approveEnrollmentRequest", "BadRequest")
  ELSE
    LET existing == ExistingEnrollmentOf(request)
        approved == BagAdd(BagRemoveOne(enrollmentRequests, request),
                           [request EXCEPT !.status = "approved"])
    IN /\ enrollmentRequests' = approved
       /\ UNCHANGED <<inflight, scheduleVars, workspaces, nextWorkspaceId, invitations>>
       /\ IF existing # {}
          THEN /\ UNCHANGED <<inflight, scheduleVars, enrollments, userFavorites>>
               /\ last' = Call("approveEnrollmentRequest", request.userId,
                               request.workspaceId, "existing",
                               CHOOSE i \in existing : TRUE)
          ELSE /\ enrollments' =
                    EnrollmentSave(enrollments, request.workspaceId, request.userId)
               /\ userFavorites' =
                    autoSetFirstFavorite(userFavorites, enrollments', request.userId)
               /\ last' = Call("approveEnrollmentRequest", request.userId,
                               request.workspaceId, "created",
                               Len(enrollments'[request.userId]))

rejectEnrollmentRequest(request, ownerId) ==
  IF request = NoRequest
  THEN Throws("rejectEnrollmentRequest", "NotFound")
  ELSE IF OwnerOf(request.workspaceId) # ownerId
  THEN Throws("rejectEnrollmentRequest", "Forbidden")
  ELSE IF request.status # "pending"
  THEN Throws("rejectEnrollmentRequest", "BadRequest")
  ELSE
    /\ enrollmentRequests' = BagAdd(BagRemoveOne(enrollmentRequests, request),
                                    [request EXCEPT !.status = "rejected"])
    /\ last' = Call("rejectEnrollmentRequest", request.userId, request.workspaceId,
                    "ok", NoId)
    /\ UNCHANGED <<inflight, scheduleVars, workspaces, nextWorkspaceId, enrollments, userFavorites, invitations>>

\* Mutant: the request rows of the pair are left behind.
RemoveEnrollmentOf_keepsRequests(workspaceId, userId) ==
  /\ enrollments' = EnrollmentRemove(enrollments, workspaceId, userId)
  /\ userFavorites' = shiftFavoriteToNext(userFavorites, enrollments', userId, workspaceId)
  /\ UNCHANGED <<inflight, scheduleVars, workspaces, nextWorkspaceId, invitations, enrollmentRequests>>

\* The writes unenrollFromWorkspace and removeUserFromWorkspace share once the
\* enrollment is found: the enrollment, every request of the pair, the favorite.
RemoveEnrollmentOf(workspaceId, userId) ==
  /\ enrollments' = EnrollmentRemove(enrollments, workspaceId, userId)
  /\ enrollmentRequests' = BagRemoveAll(enrollmentRequests,
         {r \in DOMAIN enrollmentRequests :
            r.workspaceId = workspaceId /\ r.userId = userId})
  /\ userFavorites' = shiftFavoriteToNext(userFavorites, enrollments', userId, workspaceId)
  /\ UNCHANGED <<inflight, scheduleVars, workspaces, nextWorkspaceId, invitations>>

unenrollFromWorkspace(workspaceId, userId) ==
  IF EnrollmentFindOne(enrollments, workspaceId, userId) = {}
  THEN Throws("unenrollFromWorkspace", "NotFound")
  ELSE /\ RemoveEnrollmentOf(workspaceId, userId)
       /\ last' = Call("unenrollFromWorkspace", userId, workspaceId, "ok", NoId)

removeUserFromWorkspace(workspaceId, targetUserId, ownerId) ==
  IF WorkspaceFindOne(workspaceId) = {}
  THEN Throws("removeUserFromWorkspace", "NotFound")
  ELSE IF OwnerOf(workspaceId) # ownerId
  THEN Throws("removeUserFromWorkspace", "Forbidden")
  ELSE IF targetUserId = ownerId
  THEN Throws("removeUserFromWorkspace", "BadRequest")
  ELSE IF EnrollmentFindOne(enrollments, workspaceId, targetUserId) = {}
  THEN Throws("removeUserFromWorkspace", "NotFound")
  ELSE /\ RemoveEnrollmentOf(workspaceId, targetUserId)
       /\ last' = Call("removeUserFromWorkspace", targetUserId, workspaceId, "ok", NoId)

\* ------------------------------------------------------ favorite handlers
setFavoriteWorkspace(workspaceId, userId) ==
  IF EnrollmentFindOne(enrollments, workspaceId, userId) = {}
  THEN Throws("setFavoriteWorkspace", "Forbidden")
  ELSE
    LET found == FavoriteFindOne(userFavorites, userId)
    IN /\ userFavorites' =
            IF found # {}
            THEN BagAdd(BagRemoveOne(userFavorites, CHOOSE f \in found : TRUE),
                        FavoriteRow(userId, workspaceId))
            ELSE BagAdd(userFavorites, FavoriteRow(userId, workspaceId))
       /\ last' = Call("setFavoriteWorkspace", userId, workspaceId, "ok", NoId)
       /\ UNCHANGED <<inflight, scheduleVars, workspaces, nextWorkspaceId, enrollments, enrollmentRequests,
                      invitations>>

getFavoriteWorkspace(userId) ==
  LET found == FavoriteFindOne(userFavorites, userId)
  IN IF found = {}
     THEN /\ last' = Call("getFavoriteWorkspace", userId, NoId, "null", NoId)
          /\ UNCHANGED <<dbVars, inflight>>
     ELSE LET favorite == CHOOSE f \in found : TRUE
          IN IF EnrollmentFindOne(enrollments, favorite.workspaceId, userId) = {}
             THEN /\ userFavorites' = BagRemoveOne(userFavorites, favorite)
                  /\ last' = Call("getFavoriteWorkspace", userId, NoId, "null", NoId)
                  /\ UNCHANGED <<inflight, scheduleVars, workspaces, nextWorkspaceId, enrollments,
                                 enrollmentRequests, invitations>>
             ELSE /\ last' = Call("getFavoriteWorkspace", userId, favorite.workspaceId,
                                  "ok", favorite.workspaceId)
                  /\ UNCHANGED <<dbVars, inflight>>

removeFavoriteWorkspace(userId) ==
  LET found == FavoriteFindOne(userFavorites, userId)
  IN /\ userFavorites' = IF found = {} THEN userFavorites
                         ELSE BagRemoveOne(userFavorites, CHOOSE f \in found : TRUE)
     /\ last' = Call("removeFavoriteWorkspace", userId, NoId, "ok", NoId)
     /\ UNCHANGED <<inflight, scheduleVars, workspaces, nextWorkspaceId, enrollments, enrollmentRequests,
                    invitations>>

\* ------------------------------------------------------------ invitations
InvitationRow(workspaceId, inviteeEmail, status) ==
  [workspaceId |-> workspaceId, inviteeEmail |-> inviteeEmail, status |-> status]
NoInvitation == InvitationRow(NoId, Email(NoId, FALSE, FALSE), "none")

\* AuthService.getUserByEmail: the registered users whose lower-cased e-mail is
\* the normalised argument.
getUserByEmail(email) ==
  {u \in Users : toLowerCase(UserEmail(u)) = trim(toLowerCase(email))}

PendingInvitationExists(workspaceId, normalizedEmail) ==
  BagIn(InvitationRow(workspaceId, normalizedEmail, "pending"), invitations)

\* The self-invitation test at lines 909-917: the error that leaves the block.
\* The BadRequest is thrown inside the try, and the catch of that try takes
\* every error, logs it and throws nothing.
SelfInvitationCheck(inviterId, normalizedEmail) ==
  LET thrown == IF toLowerCase(UserEmail(inviterId)) = normalizedEmail
                THEN "BadRequest" ELSE "none"
      caught == thrown
  IN IF caught = thrown THEN "none" ELSE thrown

\* lookup is what getUserByEmail answered: it answers null when the identity
\* provider fails.
createInvitation(workspaceId, inviteeEmail, inviterId, lookup) ==
  IF WorkspaceFindOne(workspaceId) = {} THEN Throws("createInvitation", "NotFound")
  ELSE IF OwnerOf(workspaceId) # inviterId THEN Throws("createInvitation", "Forbidden")
  ELSE
    LET normalizedEmail == trim(toLowerCase(inviteeEmail))
    IN IF SelfInvitationCheck(inviterId, normalizedEmail) # "none"
       THEN Throws("createInvitation", SelfInvitationCheck(inviterId, normalizedEmail))
       ELSE IF \E invitee \in lookup :
            EnrollmentFindOne(enrollments, workspaceId, invitee) # {}
       THEN Throws("createInvitation", "Conflict")
       ELSE IF PendingInvitationExists(workspaceId, normalizedEmail)
       THEN Throws("createInvitation", "Conflict")
       ELSE /\ invitations' = BagAdd(invitations,
                   InvitationRow(workspaceId, normalizedEmail, "pending"))
            /\ last' = Call("createInvitation", inviterId, workspaceId, "ok", NoId)
            /\ UNCHANGED <<inflight, scheduleVars, workspaces, nextWorkspaceId, enrollments,
                           enrollmentRequests, userFavorites>>

\* Mutant: the status of the invitation is not tested.
acceptInvitation_anyStatus(invitation, userId, userEmail) ==
  LET normalizedEmail == trim(toLowerCase(userEmail))
  IN IF invitation = NoInvitation THEN Throws("acceptInvitation", "NotFound")
     ELSE IF invitation.inviteeEmail # normalizedEmail
     THEN Throws("acceptInvitation", "Forbidden")
     ELSE IF EnrollmentFindOne(enrollments, invitation.workspaceId, userId) # {}
     THEN Throws("acceptInvitation", "Conflict")
     ELSE /\ enrollments' = EnrollmentSave(enrollments, invitation.workspaceId, userId)
          /\ invitations' = BagAdd(BagRemoveOne(invitations, invitation),
                                   [invitation EXCEPT !.status = "accepted"])
          /\ userFavorites' = autoSetFirstFavorite(userFavorites, enrollments', userId)
          /\ last' = Call("acceptInvitation", userId, invitation.workspaceId, "ok", NoId)
          /\ UNCHANGED <<inflight, scheduleVars, workspaces, nextWorkspaceId, enrollmentRequests>>

acceptInvitation(invitation, userId, userEmail) ==
  LET normalizedEmail == trim(toLowerCase(userEmail))
  IN IF invitation = NoInvitation THEN Throws("acceptInvitation", "NotFound")
     ELSE IF invitation.status # "pending" THEN Throws("acceptInvitation", "BadRequest")
     ELSE IF invitation.inviteeEmail # normalizedEmail
     THEN Throws("acceptInvitation", "Forbidden")
     ELSE IF EnrollmentFindOne(enrollments, invitation.workspaceId, userId) # {}
     THEN Throws("acceptInvitation", "Conflict")
     ELSE /\ enrollments' = EnrollmentSave(enrollments, invitation.workspaceId, userId)
          /\ invitations' = BagAdd(BagRemoveOne(invitations, invitation),
                                   [invitation EXCEPT !.status = "accepted"])
          /\ userFavorites' = autoSetFirstFavorite(userFavorites, enrollments', userId)
          /\ last' = Call("acceptInvitation", userId, invitation.workspaceId, "ok", NoId)
          /\ UNCHANGED <<inflight, scheduleVars, workspaces, nextWorkspaceId, enrollmentRequests>>

rejectInvitation(invitation, userId, userEmail) ==
  LET normalizedEmail == trim(toLowerCase(userEmail))
  IN IF invitation = NoInvitation THEN Throws("rejectInvitation", "NotFound")
     ELSE IF invitation.status # "pending" THEN Throws("rejectInvitation", "BadRequest")
     ELSE IF invitation.inviteeEmail # normalizedEmail
     THEN Throws("rejectInvitation", "Forbidden")
     ELSE /\ invitations' = BagAdd(BagRemoveOne(invitations, invitation),
                                   [invitation EXCEPT !.status = "rejected"])
          /\ last' = Call("rejectInvitation", userId, invitation.workspaceId, "ok", NoId)
          /\ UNCHANGED <<inflight, scheduleVars, workspaces, nextWorkspaceId, enrollments, enrollmentRequests,
                         userFavorites>>

cancelInvitation(invitation, ownerId) ==
  IF invitation = NoInvitation THEN Throws("cancelInvitation", "NotFound")
  ELSE IF WorkspaceFindOne(invitation.workspaceId) = {}
          \/ OwnerOf(invitation.workspaceId) # ownerId
  THEN Throws("cancelInvitation", "Forbidden")
  ELSE /\ invitations' = BagRemoveOne(invitations, invitation)
       /\ last' = Call("cancelInvitation", ownerId, invitation.workspaceId, "ok", NoId)
       /\ UNCHANGED <<inflight, scheduleVars, workspaces, nextWorkspaceId, enrollments, enrollmentRequests,
                      userFavorites>>

\* ---------------------------------------------------------------- rosters
\* publishedAt is "null" or "date" (a time stamp); publishedBy is NoId for null.
PublishedRosterRow(workspaceId, month, year, status, publishedAt, publishedBy) ==
  [workspaceId |-> workspaceId, month |-> month, year |-> year, status |-> status,
   publishedAt |-> publishedAt, publishedBy |-> publishedBy]
\* A roster that carries no stamp: publishedAt and publishedBy are nullable.
RosterRow(workspaceId, month, year, status) ==
  PublishedRosterRow(workspaceId, month, year, status, "null", NoId)
NoRoster == RosterRow(NoId, NoId, NoId, "none")
\* The primary key of a roster row.  @Unique(['workspaceId', 'month', 'year'])
\* lets the three columns stand for the generated id.
RosterId(roster) ==
  [workspaceId |-> roster.workspaceId, month |-> roster.month, year |-> roster.year]
\* Mutant: the roster query finds nothing.
RosterFindOne_none(workspaceId, month, year) == {}
\* rosterRepository.findOne({ where: { workspaceId, month, year } })
RosterFindOne(workspaceId, month, year) ==
  {r \in rosters : r.workspaceId = workspaceId /\ r.month = month /\ r.year = year}

\* rosterAssignmentRepository.create({ rosterId, ...the five fields of the DTO })
AssignmentRow(rosterId, assignment) ==
  [rosterId |-> rosterId, userId |-> assignment.userId, day |-> assignment.day,
   shiftPeriod |-> assignment.shiftPeriod, dutyType |-> assignment.dutyType,
   isOvertime |-> assignment.isOvertime]
\* @Unique(['rosterId', 'userId', 'day', 'shiftPeriod'])
AssignmentKey(row) == <<row.rosterId, row.userId, row.day, row.shiftPeriod>>

\* rosterAssignmentRepository.find({ where: { rosterId } })
AssignmentsOf(rosterId) == {a \in rosterAssignments : a.rosterId = rosterId}

\* Mutant: nothing is deleted before the new rows are written.
DeleteAssignmentsOf_nothing(rosterId) == rosterAssignments

\* rosterAssignmentRepository.delete({ rosterId }): the table that is left.
DeleteAssignmentsOf(rosterId) == rosterAssignments \ AssignmentsOf(rosterId)

\* assignments.filter((a) => a.dutyType !== '').map(create)
AssignmentsToCreate(rosterId, assignments) ==
  LET kept == SelectSeq(assignments, LAMBDA a : a.dutyType # "")
  IN [i \in DOMAIN kept |-> AssignmentRow(rosterId, kept[i])]

\* Whether inserting the rows into the table breaks the unique constraint.
AssignmentUniqueViolation(table, rows) ==
  \/ \E i, j \in DOMAIN rows : i # j /\ AssignmentKey(rows[i]) = AssignmentKey(rows[j])
  \/ \E i \in DOMAIN rows, a \in table : AssignmentKey(rows[i]) = AssignmentKey(a)

\* Mutant: the roster found is saved again as a draft.
saveRoster_resetsStatus(workspaceId, month, year, assignments, userId) ==
  IF WorkspaceFindOne(workspaceId) = {} THEN Throws("saveRoster", "NotFound")
  ELSE IF ~IsOwner(workspaceId, userId) THEN Throws("saveRoster", "Forbidden")
  ELSE
    LET roster == RosterRow(workspaceId, month, year, "draft")
        table == DeleteAssignmentsOf(RosterId(roster))
        assignmentsToCreate == AssignmentsToCreate(RosterId(roster), assignments)
        violation == AssignmentUniqueViolation(table, assignmentsToCreate)
    IN /\ rosters' = (rosters \ RosterFindOne(workspaceId, month, year)) \cup {roster}
       /\ rosterAssignments' =
            IF violation THEN table
            ELSE table \cup {assignmentsToCreate[i] : i \in DOMAIN assignmentsToCreate}
       /\ last' = IF violation
                  THEN Call("saveRoster", NoId, NoId, "InternalError", NoId)
                  ELSE RosterCall("saveRoster", userId, workspaceId, month, year,
                                  assignments, "ok", {})
       /\ UNCHANGED <<inflight, memberVars, leaveRequests>>

\* The delete is committed before save(assignmentsToCreate) opens its own
\* transaction: a save that breaks the unique constraint inserts nothing and
\* leaves the roster without assignments.
saveRoster(workspaceId, month, year, assignments, userId) ==
  IF WorkspaceFindOne(workspaceId) = {} THEN Throws("saveRoster", "NotFound")
  ELSE IF ~IsOwner(workspaceId, userId) THEN Throws("saveRoster", "Forbidden")
  ELSE
    LET found == RosterFindOne(workspaceId, month, year)
        roster == IF found # {} THEN CHOOSE r \in found : TRUE
                  ELSE RosterRow(workspaceId, month, year, "draft")
        table == DeleteAssignmentsOf(RosterId(roster))
        assignmentsToCreate == AssignmentsToCreate(RosterId(roster), assignments)
        violation == AssignmentUniqueViolation(table, assignmentsToCreate)
    IN /\ rosters' = rosters \cup {roster}
       /\ rosterAssignments' =
            IF violation THEN table
            ELSE table \cup {assignmentsToCreate[i] : i \in DOMAIN assignmentsToCreate}
       /\ last' = IF violation
                  THEN Call("saveRoster", NoId, NoId, "InternalError", NoId)
                  ELSE RosterCall("saveRoster", userId, workspaceId, month, year,
                                  assignments, "ok", {})
       /\ UNCHANGED <<inflight, memberVars, leaveRequests>>

\* Mutant: the status is saved and the stamp is left as it was.
SetRosterStatus_keepsStamp(op, roster, ownerId, status, publishedAt, publishedBy) ==
  IF roster = NoRoster THEN Throws(op, "NotFound")
  ELSE /\ rosters' = (rosters \ {roster}) \cup {[roster EXCEPT !.status = status]}
       /\ last' = Call(op, ownerId, roster.workspaceId, "ok", NoId)
       /\ UNCHANGED <<inflight, memberVars, rosterAssignments, leaveRequests>>

\* publishRoster and unpublishRoster: the status and the stamp the roster is
\* given.
SetRosterStatus(op, roster, ownerId, status, publishedAt, publishedBy) ==
  IF roster = NoRoster THEN Throws(op, "NotFound")
  ELSE IF OwnerOf(roster.workspaceId) # ownerId THEN Throws(op, "Forbidden")
  ELSE /\ rosters' = (rosters \ {roster}) \cup
                        {[roster EXCEPT !.status = status,
                                        !.publishedAt = publishedAt,
                                        !.publishedBy = publishedBy]}
       /\ last' = Call(op, ownerId, roster.workspaceId, "ok", NoId)
       /\ UNCHANGED <<inflight, memberVars, rosterAssignments, leaveRequests>>

publishRoster(roster, ownerId) ==
  SetRosterStatus("publishRoster", roster, ownerId, "published", "date", ownerId)

unpublishRoster(roster, ownerId) ==
  SetRosterStatus("unpublishRoster", roster, ownerId, "draft", "null", NoId)

\* An assignment as the two queries return it: without ids.
AssignmentView(a) ==
  [userId |-> a.userId, day |-> a.day, shiftPeriod |-> a.shiftPeriod,
   dutyType |-> a.dutyType, isOvertime |-> a.isOvertime]

getRoster(workspaceId, month, year, userId) ==
  IF WorkspaceFindOne(workspaceId) = {} THEN Throws("getRoster", "NotFound")
  ELSE IF ~IsOwner(workspaceId, userId)
          /\ EnrollmentFindOne(enrollments, workspaceId, userId) = {}
  THEN Throws("getRoster", "Forbidden")
  ELSE
    LET found == RosterFindOne(workspaceId, month, year)
    IN /\ last' =
            IF found = {}
            THEN RosterCall("getRoster", userId, workspaceId, month, year, <<>>,
                            "null", {})
            ELSE RosterCall("getRoster", userId, workspaceId, month, year, <<>>, "ok",
                   {AssignmentView(a) :
                      a \in AssignmentsOf(RosterId(CHOOSE r \in found : TRUE))})
       /\ UNCHANGED <<dbVars, inflight>>

\* Mutant: the status of the roster is not looked at.
PublishedRostersIn_anyStatus(workspaceIds, month, year) ==
  {r \in rosters : r.workspaceId \in workspaceIds /\ r.month = month /\ r.year = year}

\* The query of lines 1408-1415.
PublishedRostersIn(workspaceIds, month, year) ==
  {r \in rosters : /\ r.workspaceId \in workspaceIds
                   /\ r.month = month /\ r.year = year
                   /\ r.status = "published"}

\* The query of lines 1423-1427.
AssignmentsOfUserIn(rosterIds, userId) ==
  {a \in rosterAssignments : a.rosterId \in rosterIds /\ a.userId = userId}

\* rosterAssignments.map((a) => ({ day, shiftPeriod, dutyType, isOvertime })):
\* the bag of the elements of the array.
AssignmentCells(assignments) ==
  LET cell(a) == [day |-> a.day, shiftPeriod |-> a.shiftPeriod,
                  dutyType |-> a.dutyType, isOvertime |-> a.isOvertime]
  IN [c \in {cell(a) : a \in assignments} |->
        Cardinality({a \in assignments : cell(a) = c})]

\* One entry of the result of getUserPublishedRosters.
PublishedEntry(roster, assignments) ==
  [rosterId |-> RosterId(roster), workspaceId |-> roster.workspaceId,
   month |-> roster.month, year |-> roster.year,
   assignments |-> AssignmentCells(assignments)]

getUserPublishedRosters(userId, month, year) ==
  LET workspaceIds == {enrollments[userId][i] : i \in DOMAIN enrollments[userId]}
      found == PublishedRostersIn(workspaceIds, month, year)
      assignments == AssignmentsOfUserIn({RosterId(r) : r \in found}, userId)
      result ==
        IF enrollments[userId] = <<>> THEN {}
        ELSE IF found = {} THEN {}
        ELSE {PublishedEntry(r, {a \in assignments : a.rosterId = RosterId(r)}) :
                r \in found}
  IN /\ last' = RosterCall("getUserPublishedRosters", userId, NoId, month, year, <<>>,
                           "ok", result)
     /\ UNCHANGED <<dbVars, inflight>>

\* rosterRepository.remove(roster): RosterAssignment.roster is declared without
\* onDelete, so the database refuses while the roster has assignments.
deleteRoster(roster, ownerId) ==
  IF roster = NoRoster THEN Throws("deleteRoster", "NotFound")
  ELSE IF OwnerOf(roster.workspaceId) # ownerId THEN Throws("deleteRoster", "Forbidden")
  ELSE IF AssignmentsOf(RosterId(roster)) # {}
  THEN Throws("deleteRoster", "InternalError")
  ELSE /\ rosters' = rosters \ {roster}
       /\ last' = Call("deleteRoster", ownerId, roster.workspaceId, "ok", NoId)
       /\ UNCHANGED <<inflight, memberVars, rosterAssignments, leaveRequests>>

\* ----------------------------------------------------------------- leave
\* A date is the number of its day; startDate and endDate are dates without a
\* time of day.
LeaveRow(workspaceId, userId, startDate, endDate, status) ==
  [workspaceId |-> workspaceId, userId |-> userId, startDate |-> startDate,
   endDate |-> endDate, status |-> status]
NoLeave == LeaveRow(NoId, NoId, NoId, NoId, "none")

\* Mutant: the ranges must share more than their boundary day.
OverlappingRequests_strict(workspaceId, userId, startDate, endDate) ==
  {l \in DOMAIN leaveRequests :
     /\ l.workspaceId = workspaceId /\ l.userId = userId /\ l.status = "pending"
     /\ l.startDate < endDate /\ l.endDate > startDate}

\* The query of lines 1527-1538.
OverlappingRequests(workspaceId, userId, startDate, endDate) ==
  {l \in DOMAIN leaveRequests :
     /\ l.workspaceId = workspaceId /\ l.userId = userId /\ l.status = "pending"
     /\ l.startDate <= endDate /\ l.endDate >= startDate}

\* Mutant: the owner needs no enrollment.
requestLeave_ownerAllowed(workspaceId, startDate, endDate, userId) ==
  IF WorkspaceFindOne(workspaceId) = {} THEN Throws("requestLeave", "NotFound")
  ELSE IF /\ EnrollmentFindOne(enrollments, workspaceId, userId) = {}
          /\ OwnerOf(workspaceId) # userId
  THEN Throws("requestLeave", "Forbidden")
  ELSE IF endDate < startDate THEN Throws("requestLeave", "BadRequest")
  ELSE IF OverlappingRequests(workspaceId, userId, startDate, endDate) # {}
  THEN Throws("requestLeave", "Conflict")
  ELSE /\ leaveRequests' = BagAdd(leaveRequests,
              LeaveRow(workspaceId, userId, startDate, endDate, "pending"))
       /\ last' = Call("requestLeave", userId, workspaceId, "ok", NoId)
       /\ UNCHANGED <<inflight, memberVars, rosters, rosterAssignments>>

requestLeave(workspaceId, startDate, endDate, userId) ==
  IF WorkspaceFindOne(workspaceId) = {} THEN Throws("requestLeave", "NotFound")
  ELSE IF EnrollmentFindOne(enrollments, workspaceId, userId) = {}
  THEN Throws("requestLeave", "Forbidden")
  ELSE IF endDate < startDate THEN Throws("requestLeave", "BadRequest")
  ELSE IF OverlappingRequests(workspaceId, userId, startDate, endDate) # {}
  THEN Throws("requestLeave", "Conflict")
  ELSE /\ leaveRequests' = BagAdd(leaveRequests,
              LeaveRow(workspaceId, userId, startDate, endDate, "pending"))
       /\ last' = Call("requestLeave", userId, workspaceId, "ok", NoId)
       /\ UNCHANGED <<inflight, memberVars, rosters, rosterAssignments>>

\* Mutant: the status of the request is not tested.
DecideLeaveRequest_anyStatus(op, request, ownerId, status) ==
  IF request = NoLeave THEN Throws(op, "NotFound")
  ELSE IF OwnerOf(request.workspaceId) # ownerId THEN Throws(op, "Forbidden")
  ELSE /\ leaveRequests' = BagAdd(BagRemoveOne(leaveRequests, request),
                                  [request EXCEPT !.status = status])
       /\ last' = Call(op, request.userId, request.workspaceId, "ok", NoId)
       /\ UNCHANGED <<inflight, memberVars, rosters, rosterAssignments>>

\* approveLeaveRequest and rejectLeaveRequest: the status the request is given.
\* A request whose workspace row is gone is loaded with workspace null, and
\* reading request.workspace.ownerId throws a TypeError.
DecideLeaveRequest(op, request, ownerId, status) ==
  IF request = NoLeave THEN Throws(op, "NotFound")
  ELSE IF WorkspaceFindOne(request.workspaceId) = {} THEN Throws(op, "InternalError")
  ELSE IF OwnerOf(request.workspaceId) # ownerId THEN Throws(op, "Forbidden")
  ELSE IF request.status # "pending" THEN Throws(op, "BadRequest")
  ELSE /\ leaveRequests' = BagAdd(BagRemoveOne(leaveRequests, request),
                                  [request EXCEPT !.status = status])
       /\ last' = Call(op, request.userId, request.workspaceId, "ok", NoId)
       /\ UNCHANGED <<inflight, memberVars, rosters, rosterAssignments>>

approveLeaveRequest(request, ownerId) ==
  DecideLeaveRequest("approveLeaveRequest", request, ownerId, "approved")

rejectLeaveRequest(request, ownerId) ==
  DecideLeaveRequest("rejectLeaveRequest", request, ownerId, "rejected")

\* Mutant: a request of any status is removed.
cancelLeaveRequest_anyStatus(request, userId) ==
  IF request = NoLeave THEN Throws("cancelLeaveRequest", "NotFound")
  ELSE IF request.userId # userId THEN Throws("cancelLeaveRequest", "Forbidden")
  ELSE /\ leaveRequests' = BagRemoveOne(leaveRequests, request)
       /\ last' = Call("cancelLeaveRequest", userId, request.workspaceId, "ok", NoId)
       /\ UNCHANGED <<inflight, memberVars, rosters, rosterAssignments>>

cancelLeaveRequest(request, userId) ==
  IF request = NoLeave THEN Throws("cancelLeaveRequest", "NotFound")
  ELSE IF request.userId # userId THEN Throws("cancelLeaveRequest", "Forbidden")
  ELSE IF request.status # "pending" THEN Throws("cancelLeaveRequest", "BadRequest")
  ELSE /\ leaveRequests' = BagRemoveOne(leaveRequests, request)
       /\ last' = Call("cancelLeaveRequest", userId, request.workspaceId, "ok", NoId)
       /\ UNCHANGED <<inflight, memberVars, rosters, rosterAssignments>>

\* ------------------------------------------------------------------ inputs
\* ------------------------------------------------- statement by statement
\* The handlers below run one awaited database statement per step, so that the
\* statements of concurrent calls interleave; no handler opens a transaction.

\* @Unique(['workspaceId', 'userId']) of the Enrollment entity: the insert of a
\* second row of the pair is refused by the database.
\* Mutant: the table has no unique constraint.
EnrollmentUniqueViolation_never(enrs, workspaceId, userId) == FALSE
EnrollmentUniqueViolation(enrs, workspaceId, userId) ==
  EnrollmentFindOne(enrs, workspaceId, userId) # {}

\* repository.save(row) of a loaded row whose status was set to status: the
\* tables it can leave.  The row is updated by primary key, whatever status
\* it has by now; rows carry no key here, so the row saved may be any stored
\* row that differs from the one read in its status at most.  A row deleted
\* in between is inserted again.
SaveStatus(table, row, status) ==
  LET saved == [row EXCEPT !.status = status]
      stored == {r \in DOMAIN table : [r EXCEPT !.status = row.status] = row}
  IN IF stored = {} THEN {BagAdd(table, saved)}
     ELSE {BagAdd(BagRemoveOne(table, r), saved) : r \in stored}

\* enrollmentRepository.save(create({ workspaceId, userId })) of the call in
\* the slot; then is the statement that follows.
InsertEnrollment(slot, then) ==
  LET c == inflight[slot]
  IN IF EnrollmentUniqueViolation(enrollments, c.workspaceId, c.userId)
     THEN Return(slot, "InternalError") /\ UNCHANGED dbVars
     ELSE /\ enrollments' = EnrollmentSave(enrollments, c.workspaceId, c.userId)
          /\ Goto(slot, then)
          /\ UNCHANGED <<scheduleVars, workspaces, nextWorkspaceId, enrollmentRequests,
                         userFavorites, invitations>>

\* The call to autoSetFirstFavorite that ends the three handlers.
LastSetsFavorite(slot, result) ==
  /\ userFavorites' = autoSetFirstFavorite(userFavorites, enrollments, inflight[slot].userId)
  /\ Return(slot, result)
  /\ UNCHANGED <<scheduleVars, workspaces, nextWorkspaceId, enrollments,
                 enrollmentRequests, invitations>>

\* requestEnrollment up to its first statement, the load of the workspace.
BeginRequestEnrollment(slot, workspaceId, userId) ==
  /\ inflight[slot] = Idle
  /\ IF WorkspaceFindOne(workspaceId) = {}
     THEN Throws("requestEnrollment", "NotFound")
     ELSE /\ inflight' = [inflight EXCEPT ![slot] =
                 InflightCall("requestEnrollment", "findEnrollment", userId,
                              workspaceId, OwnerOf(workspaceId), NoRequest)]
          /\ UNCHANGED <<dbVars, last>>

StepRequestEnrollment(slot) ==
  LET c == inflight[slot]
      isOwner == c.ownerId = c.userId
  IN /\ c.op = "requestEnrollment"
     /\ IF c.pc = "findEnrollment"
        THEN /\ IF EnrollmentFindOne(enrollments, c.workspaceId, c.userId) # {}
                THEN Return(slot, "Conflict")
                ELSE Goto(slot, "findRequest")
             /\ UNCHANGED dbVars
        ELSE IF c.pc = "findRequest"
        THEN /\ IF PendingRequestExists(c.workspaceId, c.userId)
                THEN Return(slot, "Conflict")
                ELSE Goto(slot, IF isOwner THEN "saveEnrollment" ELSE "saveRequest")
             /\ UNCHANGED dbVars
        ELSE IF c.pc = "saveEnrollment"
        THEN InsertEnrollment(slot, "saveRequest")
        ELSE IF c.pc = "saveRequest"
        THEN /\ enrollmentRequests' =
                  BagAdd(enrollmentRequests,
                         RequestRow(c.workspaceId, c.userId,
                                    IF isOwner THEN "approved" ELSE "pending"))
             /\ IF isOwner THEN Goto(slot, "favorite") ELSE Return(slot, "pending")
             /\ UNCHANGED <<scheduleVars, workspaces, nextWorkspaceId, enrollments,
                            userFavorites, invitations>>
        ELSE LastSetsFavorite(slot, "enrolled")

\* approveEnrollmentRequest up to its first statement, the load of the request
\* with its workspace, and the three tests on what was loaded.
BeginApproveEnrollmentRequest(slot, request, ownerId) ==
  /\ inflight[slot] = Idle
  /\ IF request = NoRequest
     THEN Throws("approveEnrollmentRequest", "NotFound")
     ELSE IF OwnerOf(request.workspaceId) # ownerId
     THEN Throws("approveEnrollmentRequest", "Forbidden")
     ELSE IF request.status # "pending"
     THEN Throws("approveEnrollmentRequest", "BadRequest")
     ELSE /\ inflight' = [inflight EXCEPT ![slot] =
                 InflightCall("approveEnrollmentRequest", "findEnrollment",
                              request.userId, request.workspaceId, ownerId, request)]
          /\ UNCHANGED <<dbVars, last>>

StepApproveEnrollmentRequest(slot) ==
  LET c == inflight[slot]
  IN /\ c.op = "approveEnrollmentRequest"
     /\ IF c.pc = "findEnrollment"
        THEN /\ Goto(slot, IF ExistingEnrollmentOf(c.row) # {}
                           THEN "saveExisting" ELSE "saveEnrollment")
             /\ UNCHANGED dbVars
        ELSE IF c.pc = "saveEnrollment"
        THEN InsertEnrollment(slot, "saveRequest")
        ELSE IF c.pc \in {"saveExisting", "saveRequest"}
        THEN /\ enrollmentRequests' \in SaveStatus(enrollmentRequests, c.row, "approved")
             /\ IF c.pc = "saveExisting"
                THEN Return(slot, "existing") ELSE Goto(slot, "favorite")
             /\ UNCHANGED <<scheduleVars, workspaces, nextWorkspaceId, enrollments,
                            userFavorites, invitations>>
        ELSE LastSetsFavorite(slot, "created")

\* rejectEnrollmentRequest up to its first statement, the load of the request
\* with its workspace, and the three tests on what was loaded.
BeginRejectEnrollmentRequest(slot, request, ownerId) ==
  /\ inflight[slot] = Idle
  /\ IF request = NoRequest
     THEN Throws("rejectEnrollmentRequest", "NotFound")
     ELSE IF OwnerOf(request.workspaceId) # ownerId
     THEN Throws("rejectEnrollmentRequest", "Forbidden")
     ELSE IF request.status # "pending"
     THEN Throws("rejectEnrollmentRequest", "BadRequest")
     ELSE /\ inflight' = [inflight EXCEPT ![slot] =
                 InflightCall("rejectEnrollmentRequest", "saveRequest",
                              request.userId, request.workspaceId, ownerId, request)]
          /\ UNCHANGED <<dbVars, last>>

\* The save of the request with status rejected.
StepRejectEnrollmentRequest(slot) ==
  LET c == inflight[slot]
  IN /\ c.op = "rejectEnrollmentRequest"
     /\ enrollmentRequests' \in SaveStatus(enrollmentRequests, c.row, "rejected")
     /\ Return(slot, "ok")
     /\ UNCHANGED <<scheduleVars, workspaces, nextWorkspaceId, enrollments,
                    userFavorites, invitations>>

\* acceptInvitation up to its first statement, the load of the invitation, and
\* the three tests on what was loaded.
BeginAcceptInvitation(slot, invitation, userId, userEmail) ==
  /\ inflight[slot] = Idle
  /\ IF invitation = NoInvitation THEN Throws("acceptInvitation", "NotFound")
     ELSE IF invitation.status # "pending" THEN Throws("acceptInvitation", "BadRequest")
     ELSE IF invitation.inviteeEmail # trim(toLowerCase(userEmail))
     THEN Throws("acceptInvitation", "Forbidden")
     ELSE /\ inflight' = [inflight EXCEPT ![slot] =
                 InflightCall("acceptInvitation", "findEnrollment", userId,
                              invitation.workspaceId, NoId, invitation)]
          /\ UNCHANGED <<dbVars, last>>

StepAcceptInvitation(slot) ==
  LET c == inflight[slot]
  IN /\ c.op = "acceptInvitation"
     /\ IF c.pc = "findEnrollment"
        THEN /\ IF EnrollmentFindOne(enrollments, c.workspaceId, c.userId) # {}
                THEN Return(slot, "Conflict")
                ELSE Goto(slot, "saveEnrollment")
             /\ UNCHANGED dbVars
        ELSE IF c.pc = "saveEnrollment"
        THEN InsertEnrollment(slot, "saveInvitation")
        ELSE IF c.pc = "saveInvitation"
        THEN /\ invitations' \in SaveStatus(invitations, c.row, "accepted")
             /\ Goto(slot, "favorite")
             /\ UNCHANGED <<scheduleVars, workspaces, nextWorkspaceId, enrollments,
                            enrollmentRequests, userFavorites>>
        ELSE LastSetsFavorite(slot, "ok")

\* requestLeave up to its first statement, the load of the workspace.
BeginRequestLeave(slot, workspaceId, startDate, endDate, userId) ==
  /\ inflight[slot] = Idle
  /\ IF WorkspaceFindOne(workspaceId) = {}
     THEN Throws("requestLeave", "NotFound")
     ELSE /\ inflight' = [inflight EXCEPT ![slot] =
                 InflightCall("requestLeave", "findEnrollment", userId, workspaceId,
                              OwnerOf(workspaceId),
                              LeaveRow(workspaceId, userId, startDate, endDate,
                                       "pending"))]
          /\ UNCHANGED <<dbVars, last>>

\* The enrollment query with the test of the dates, the overlap query, and
\* the insert.
StepRequestLeave(slot) ==
  LET c == inflight[slot]
  IN /\ c.op = "requestLeave"
     /\ IF c.pc = "findEnrollment"
        THEN /\ IF EnrollmentFindOne(enrollments, c.workspaceId, c.userId) = {}
                THEN Return(slot, "Forbidden")
                ELSE IF c.row.endDate < c.row.startDate
                THEN Return(slot, "BadRequest")
                ELSE Goto(slot, "findOverlapping")
             /\ UNCHANGED dbVars
        ELSE IF c.pc = "findOverlapping"
        THEN /\ IF OverlappingRequests(c.workspaceId, c.userId,
                                       c.row.startDate, c.row.endDate) # {}
                THEN Return(slot, "Conflict")
                ELSE Goto(slot, "saveLeave")
             /\ UNCHANGED dbVars
        ELSE /\ leaveRequests' = BagAdd(leaveRequests, c.row)
             /\ Return(slot, "ok")
             /\ UNCHANGED <<memberVars, rosters, rosterAssignments>>

\* createInvitation up to its first statement, the load of the workspace, with
\* the owner test, the normalisation and the self-invitation test.
BeginCreateInvitation(slot, workspaceId, inviteeEmail, inviterId) ==
  LET normalizedEmail == trim(toLowerCase(inviteeEmail))
  IN /\ inflight[slot] = Idle
     /\ IF WorkspaceFindOne(workspaceId) = {}
        THEN Throws("createInvitation", "NotFound")
        ELSE IF OwnerOf(workspaceId) # inviterId
        THEN Throws("createInvitation", "Forbidden")
        ELSE IF SelfInvitationCheck(inviterId, normalizedEmail) # "none"
        THEN Throws("createInvitation", SelfInvitationCheck(inviterId, normalizedEmail))
        ELSE /\ inflight' = [inflight EXCEPT ![slot] =
                    InflightCall("createInvitation", "findEnrollment", inviterId,
                                 workspaceId, inviterId,
                                 InvitationRow(workspaceId, normalizedEmail, "pending"))]
             /\ UNCHANGED <<dbVars, last>>

\* The lookup of the invitee with the enrollment query, the query for a
\* pending invitation, and the insert.  The identity provider answers the
\* user of the address, or nothing when it fails.
StepCreateInvitation(slot) ==
  LET c == inflight[slot]
  IN /\ c.op = "createInvitation"
     /\ IF c.pc = "findEnrollment"
        THEN /\ \E lookup \in {getUserByEmail(c.row.inviteeEmail), {}} :
                  IF \E invitee \in lookup :
                       EnrollmentFindOne(enrollments, c.workspaceId, invitee) # {}
                  THEN Return(slot, "Conflict")
                  ELSE Goto(slot, "findInvitation")
             /\ UNCHANGED dbVars
        ELSE IF c.pc = "findInvitation"
        THEN /\ IF PendingInvitationExists(c.workspaceId, c.row.inviteeEmail)
                THEN Return(slot, "Conflict")
                ELSE Goto(slot, "saveInvitation")
             /\ UNCHANGED dbVars
        ELSE /\ invitations' = BagAdd(invitations, c.row)
             /\ Return(slot, "ok")
             /\ UNCHANGED <<scheduleVars, workspaces, nextWorkspaceId, enrollments,
                            enrollmentRequests, userFavorites>>

\* Mutant: the rosters table has no unique constraint.
RosterUniqueViolation_never(table, roster) == FALSE
\* @Unique(['workspaceId', 'month', 'year']) on Roster: whether inserting the
\* roster breaks it.
RosterUniqueViolation(table, roster) ==
  \E r \in table : RosterId(r) = RosterId(roster)

\* saveRoster up to its first statement, the load of the workspace, with the
\* owner test.  row keeps the roster of the call and the cells it carries.
BeginSaveRoster(slot, workspaceId, month, year, assignments, userId) ==
  /\ inflight[slot] = Idle
  /\ IF WorkspaceFindOne(workspaceId) = {} THEN Throws("saveRoster", "NotFound")
     ELSE IF ~IsOwner(workspaceId, userId) THEN Throws("saveRoster", "Forbidden")
     ELSE /\ inflight' = [inflight EXCEPT ![slot] =
                 InflightCall("saveRoster", "findRoster", userId, workspaceId, userId,
                              [roster |-> RosterRow(workspaceId, month, year, "draft"),
                               assignments |-> assignments])]
          /\ UNCHANGED <<dbVars, last>>

\* The roster query, the insert of a roster that was not found, the delete of
\* the roster's assignments, and the insert of the new ones.  An insert that
\* breaks a unique constraint fails with a QueryFailedError.
StepSaveRoster(slot) ==
  LET c == inflight[slot]
      rosterId == RosterId(c.row.roster)
      assignmentsToCreate == AssignmentsToCreate(rosterId, c.row.assignments)
  IN /\ c.op = "saveRoster"
     /\ IF c.pc = "findRoster"
        THEN /\ IF RosterFindOne(c.workspaceId, c.row.roster.month, c.row.roster.year) # {}
                THEN Goto(slot, "deleteAssignments")
                ELSE Goto(slot, "saveRoster")
             /\ UNCHANGED dbVars
        ELSE IF c.pc = "saveRoster"
        THEN IF RosterUniqueViolation(rosters, c.row.roster)
             THEN Return(slot, "InternalError") /\ UNCHANGED dbVars
             ELSE /\ rosters' = rosters \cup {c.row.roster}
                  /\ Goto(slot, "deleteAssignments")
                  /\ UNCHANGED <<memberVars, rosterAssignments, leaveRequests>>
        ELSE IF c.pc = "deleteAssignments"
        THEN /\ rosterAssignments' = DeleteAssignmentsOf(rosterId)
             /\ IF Len(assignmentsToCreate) > 0
                THEN Goto(slot, "saveAssignments") ELSE Return(slot, "ok")
             /\ UNCHANGED <<memberVars, rosters, leaveRequests>>
        ELSE IF AssignmentUniqueViolation(rosterAssignments, assignmentsToCreate)
        THEN Return(slot, "InternalError") /\ UNCHANGED dbVars
        ELSE /\ rosterAssignments' = rosterAssignments
                   \cup {assignmentsToCreate[i] : i \in DOMAIN assignmentsToCreate}
             /\ Return(slot, "ok")
             /\ UNCHANGED <<memberVars, rosters, leaveRequests>>

\* ------------------------------------------------------------- the guard
\* An Authorization header is absent, a value that is not a string, or a
\* string: its first seven characters (scheme), whether blanks surround what
\* follows them, and the length of what follows once trimmed.
AuthHeader(kind, scheme, padded, tokenLength) ==
  [kind |-> kind, scheme |-> scheme, padded |-> padded, tokenLength |-> tokenLength]
\* What supabase.auth.getUser answers for the token: outcome is "user" when it
\* returns data.user, whose id may be missing (NoId) and whose email may be.
SupabaseAnswer(outcome, id, hasEmail) ==
  [outcome |-> outcome, id |-> id, hasEmail |-> hasEmail]
NoUser == SupabaseAnswer("null", NoId, FALSE)
\* token.length < 10, in the guard and in verifyToken
MinTokenLength == 10

\* AuthService.verifyToken: the user, or null.
verifyToken(tokenLength, supabase) ==
  IF supabase.outcome = "uninitialized" THEN NoUser
  ELSE IF tokenLength < MinTokenLength THEN NoUser
  ELSE IF supabase.outcome \in {"error", "timeout", "noData"} THEN NoUser
  ELSE IF supabase.id = NoId \/ ~supabase.hasEmail THEN NoUser
  ELSE supabase

\* Mutant: any scheme passes.
startsWithBearer_anyScheme(header) == TRUE
\* authHeader.startsWith('Bearer ')
startsWithBearer(header) == header.scheme = "Bearer "
\* authHeader.replace('Bearer ', '').trim().length
TokenLength(header) == header.tokenLength

\* AuthGuard.canActivate: the user attached to the request, or NoUser when the
\* guard throws UnauthorizedException.  A header that is not a string makes
\* startsWith throw a TypeError, which the catch turns into Unauthorized.
canActivate(header, supabase) ==
  IF header.kind = "absent" THEN NoUser
  ELSE IF header.kind # "string" THEN NoUser
  ELSE IF ~startsWithBearer(header) THEN NoUser
  ELSE IF TokenLength(header) < MinTokenLength THEN NoUser
  ELSE LET user == verifyToken(TokenLength(header), supabase)
       IN IF user = NoUser THEN NoUser
          ELSE IF user.id = NoId \/ ~user.hasEmail THEN NoUser
          ELSE user

\* A request arrives at the controller and the guard runs: the request is
\* recorded with the user attached to it, or refused.
Receive(header, supabase) ==
  LET user == canActivate(header, supabase)
  IN /\ last' = [Call("canActivate", user.id, NoId,
                      IF user = NoUser THEN "Unauthorized" ELSE "ok", NoId)
                 EXCEPT !.rows = {[authorization |-> header, supabase |-> supabase]}]
     /\ UNCHANGED <<dbVars, inflight>>
\* The guard has let the last request through: its handler runs next.
Admitted == last.op = "canActivate" /\ last.result = "ok"

RequestIds == DOMAIN enrollmentRequests \cup {NoRequest}
InvitationIds == DOMAIN invitations \cup {NoInvitation}
FkActions == {"none", "restrict", "cascade"}
\* One mailbox more than there are users: an address nobody has registered.
\* Each mailbox is given as typed in lower case and with capitals and blanks.
EmailInputs ==
  {Email(m, x, x) : m \in 1..(NumUsers + 1), x \in BOOLEAN}

\* req.user.email of user u as the identity provider may spell it.
CallerEmails(u) == {Email(u, x, x) : x \in BOOLEAN}

\* The Authorization headers and the answers of the identity provider.
AuthHeaders ==
  {AuthHeader("absent", "", FALSE, 0), AuthHeader("notString", "", FALSE, 0)}
  \cup {AuthHeader("string", scheme, padded, n) :
          scheme \in {"Bearer ", "bearer ", "Basic  "}, padded \in BOOLEAN,
          n \in {0, MinTokenLength - 1, MinTokenLength}}
SupabaseAnswers ==
  {SupabaseAnswer(o, NoId, FALSE) : o \in {"uninitialized", "error", "timeout", "noData"}}
  \cup {SupabaseAnswer("user", id, e) : id \in Users \cup {NoId}, e \in BOOLEAN}

\* The queries of a search: the id text of a workspace that exists or not, and
\* the non-empty texts (@IsNotEmpty) over a few letters and LIKE's wildcards.
QueryChars == {"W", "w", "a", "b", "%", "_"}
Queries ==
  {Query(TRUE, id, <<>>) : id \in 1..(SearchWorkspaces + 1)}
  \cup {Query(FALSE, NoId, text) :
          text \in UNION {[1..n -> QueryChars] : n \in 1..MaxQueryLen}}

\* The bodies of PATCH /workspaces/:id.
UpdateWorkspaceBodies ==
  {UpdateWorkspaceBody(n, o) : n \in Names \cup {"undefined"}, o \in Users \cup {NoId}}

RosterInputs == DOMAIN SetToBag(rosters) \cup {NoRoster}
LeaveIds == DOMAIN leaveRequests \cup {NoLeave}
Months == 1..MaxMonth
Years == {2024}
\* The cells a saveRoster call can carry, and the arrays of them.
AssignmentInputs ==
  [userId : Users, day : 1..MaxDay, shiftPeriod : {"M"}, dutyType : {"M", ""},
   isOvertime : BOOLEAN]
AssignmentArrays ==
  UNION {[1..n -> AssignmentInputs] : n \in 0..MaxAssignments}
\* The arrays of two cells that differ in nothing but, at most, their user.
TwoCellArrays ==
  {a \in AssignmentArrays :
     /\ Len(a) \in {0, 2}
     /\ \A i \in DOMAIN a : a[i].day = 1 /\ a[i].dutyType = "M" /\ ~a[i].isOvertime}
LeaveDays == 1..MaxLeaveDay

\* The calls of users to workspaces W, at most maxRequests request rows.
EnrollmentSteps(W, maxRequests) ==
  \/ \E u \in Users : nextWorkspaceId \in W /\ create(u)
  \/ \E w \in W, u \in Users, fk \in FkActions : remove(w, u, fk)
  \/ \E w \in W, u \in Users :
       /\ requestEnrollment(w, u)
       /\ BagCardinality(enrollmentRequests') <= maxRequests
  \/ \E r \in RequestIds, u \in Users : approveEnrollmentRequest(r, u)
  \/ \E r \in RequestIds, u \in Users : rejectEnrollmentRequest(r, u)
  \/ \E w \in W, u \in Users : unenrollFromWorkspace(w, u)
  \/ \E w \in W, t \in Users, u \in Users : removeUserFromWorkspace(w, t, u)

FavoriteSteps(W) ==
  \/ \E w \in W, u \in Users : setFavoriteWorkspace(w, u)
  \/ \E u \in Users : getFavoriteWorkspace(u)
  \/ \E u \in Users : removeFavoriteWorkspace(u)

InvitationSteps(W) ==
  \/ \E w \in W, e \in EmailInputs, u \in Users :
       \E lookup \in {getUserByEmail(e), {}} :
         /\ createInvitation(w, e, u, lookup)
         /\ BagCardinality(invitations') <= MaxInvitations
  \/ \E i \in InvitationIds, u \in Users :
       \E e \in CallerEmails(u) : acceptInvitation(i, u, e)
  \/ \E i \in InvitationIds, u \in Users : rejectInvitation(i, u, UserEmail(u))
  \/ \E i \in InvitationIds, u \in Users : cancelInvitation(i, u)

\* Enrollment, requests and favorites.
Next ==
  \/ EnrollmentSteps(WorkspaceIds, MaxEnrollmentRequests)
  \/ FavoriteSteps(WorkspaceIds)

Spec == Init /\ [][Next]_vars

\* The same with invitations, for the workspaces 1..InviteWorkspaces.
NextInvite ==
  \/ EnrollmentSteps(1..InviteWorkspaces, MaxEnrollmentRequests)
  \/ FavoriteSteps(1..InviteWorkspaces)
  \/ InvitationSteps(1..InviteWorkspaces)

SpecInvite == Init /\ [][NextInvite]_vars

\* Two workspaces of user 1, user 2 the one invited: every way into and out of
\* an enrollment, and every call that touches a favorite.
NextJoin ==
  \/ nextWorkspaceId \in WorkspaceIds /\ create(1)
  \/ \E w \in WorkspaceIds, u \in Users, fk \in FkActions : remove(w, u, fk)
  \/ \E w \in WorkspaceIds, u \in Users :
       /\ requestEnrollment(w, u)
       /\ BagCardinality(enrollmentRequests') <= MaxEnrollmentRequests
  \/ \E r \in RequestIds, u \in Users : approveEnrollmentRequest(r, u)
  \/ \E w \in WorkspaceIds, u \in Users : unenrollFromWorkspace(w, u)
  \/ \E w \in WorkspaceIds, t \in Users, u \in Users : removeUserFromWorkspace(w, t, u)
  \/ FavoriteSteps(WorkspaceIds)
  \/ \E w \in WorkspaceIds, u \in Users :
       /\ createInvitation(w, UserEmail(2), u, getUserByEmail(UserEmail(2)))
       /\ BagCardinality(invitations') <= MaxInvitations
  \/ \E i \in InvitationIds, u \in Users : acceptInvitation(i, u, UserEmail(u))

SpecJoin == Init /\ [][NextJoin]_vars

\* Favorites over 1..FavoriteWorkspaces workspaces, all created by user 1, so
\* that a user can hold three enrollments.
NextFavorite ==
  \/ nextWorkspaceId \in 1..FavoriteWorkspaces /\ create(1)
  \/ \E w \in 1..FavoriteWorkspaces, u \in Users, fk \in FkActions : remove(w, u, fk)
  \/ \E w \in 1..FavoriteWorkspaces, u \in Users :
       /\ requestEnrollment(w, u)
       /\ BagCardinality(enrollmentRequests') <= FavoriteRequests
  \/ \E r \in RequestIds, u \in Users : approveEnrollmentRequest(r, u)
  \/ \E w \in 1..FavoriteWorkspaces, u \in Users : unenrollFromWorkspace(w, u)
  \/ \E w \in 1..FavoriteWorkspaces, t \in Users, u \in Users :
       removeUserFromWorkspace(w, t, u)
  \/ \E w \in 1..FavoriteWorkspaces, u \in Users : setFavoriteWorkspace(w, u)

SpecFavorite == Init /\ [][NextFavorite]_vars

\* The rosters of the workspaces 1..RosterWorkspaces, created by user 1, and
\* their assignments.
NextRoster ==
  \/ nextWorkspaceId \in 1..RosterWorkspaces /\ create(1)
  \/ \E w \in 1..RosterWorkspaces, m \in Months, y \in Years, u \in Users :
       \E a \in AssignmentArrays : saveRoster(w, m, y, a, u)
  \/ \E r \in RosterInputs, u \in Users : publishRoster(r, u)
  \/ \E r \in RosterInputs, u \in Users : unpublishRoster(r, u)
  \/ \E w \in 1..RosterWorkspaces, m \in Months, y \in Years, u \in Users :
       getRoster(w, m, y, u)
  \/ \E r \in RosterInputs, u \in Users : deleteRoster(r, u)

SpecRoster == Init /\ [][NextRoster]_vars

\* Published rosters of the workspaces 1..PublishedWorkspaces, all created by
\* user 1, and the enrollments of their readers.
NextPublished ==
  \/ nextWorkspaceId \in 1..PublishedWorkspaces /\ create(1)
  \/ \E w \in 1..PublishedWorkspaces, u \in Users :
       /\ requestEnrollment(w, u)
       /\ BagCardinality(enrollmentRequests') <= PublishedRequests
  \/ \E r \in RequestIds, u \in Users : approveEnrollmentRequest(r, u)
  \/ \E w \in 1..PublishedWorkspaces, u \in Users : unenrollFromWorkspace(w, u)
  \/ \E w \in 1..PublishedWorkspaces, m \in Months, y \in Years, u \in Users :
       \E a \in TwoCellArrays :
         /\ saveRoster(w, m, y, a, u)
         /\ Cardinality(rosters') <= MaxRosters
  \/ \E r \in RosterInputs, u \in Users : publishRoster(r, u)
  \/ \E r \in RosterInputs, u \in Users : unpublishRoster(r, u)
  \/ \E u \in Users, m \in Months, y \in Years : getUserPublishedRosters(u, m, y)

SpecPublished == Init /\ [][NextPublished]_vars

\* Leave requests of the members of the workspaces 1..LeaveWorkspaces, created
\* by user 1.
NextLeave ==
  \/ nextWorkspaceId \in 1..LeaveWorkspaces /\ create(1)
  \/ \E w \in 1..LeaveWorkspaces, u \in Users :
       /\ requestEnrollment(w, u)
       /\ BagCardinality(enrollmentRequests') <= LeaveEnrollmentRequests
  \/ \E r \in RequestIds, u \in Users : approveEnrollmentRequest(r, u)
  \/ \E w \in 1..LeaveWorkspaces, u \in Users : unenrollFromWorkspace(w, u)
  \/ \E w \in 1..LeaveWorkspaces, s \in LeaveDays, e \in LeaveDays, u \in Users :
       /\ requestLeave(w, s, e, u)
       /\ BagCardinality(leaveRequests') <= MaxLeaveRequests
  \/ \E l \in LeaveIds, u \in Users : approveLeaveRequest(l, u)
  \/ \E l \in LeaveIds, u \in Users : rejectLeaveRequest(l, u)
  \/ \E l \in LeaveIds, u \in Users : cancelLeaveRequest(l, u)

SpecLeave == Init /\ [][NextLeave]_vars

\* The arrays of at most one cell: user 2 on day 1.
OneCellArrays ==
  {a \in AssignmentArrays :
     /\ Len(a) <= 1
     /\ \A i \in DOMAIN a :
          a[i].userId = 2 /\ a[i].day = 1 /\ a[i].dutyType = "M" /\ ~a[i].isOvertime}

\* Every operation reserved to the owner, over the workspaces
\* 1..OwnerWorkspaces of user 1, next to the calls that give the owner
\* something to decide: a request to enroll, a request for leave on day 1, and
\* with user 2 the one invited and rostered; and the reading of the roster,
\* which is open to the members too.
NextOwner ==
  \/ nextWorkspaceId \in 1..OwnerWorkspaces /\ create(1)
  \/ \E w \in 1..OwnerWorkspaces, n \in Names, u \in Users : update(w, n, u)
  \/ \E w \in 1..OwnerWorkspaces, u \in Users, fk \in FkActions : remove(w, u, fk)
  \/ \E w \in 1..OwnerWorkspaces, u \in Users :
       /\ requestEnrollment(w, u)
       /\ BagCardinality(enrollmentRequests') <= OwnerRequests
  \/ \E r \in RequestIds, u \in Users : approveEnrollmentRequest(r, u)
  \/ \E r \in RequestIds, u \in Users : rejectEnrollmentRequest(r, u)
  \/ \E w \in 1..OwnerWorkspaces, t \in Users, u \in Users :
       removeUserFromWorkspace(w, t, u)
  \/ \E w \in 1..OwnerWorkspaces, u \in Users :
       /\ createInvitation(w, UserEmail(2), u, getUserByEmail(UserEmail(2)))
       /\ BagCardinality(invitations') <= MaxInvitations
  \/ \E i \in InvitationIds, u \in Users : cancelInvitation(i, u)
  \/ \E w \in 1..OwnerWorkspaces, y \in Years, u \in Users :
       \E a \in OneCellArrays :
         /\ saveRoster(w, 1, y, a, u)
         /\ Cardinality(rosters') <= OwnerRosters
  \/ \E r \in RosterInputs, u \in Users : publishRoster(r, u)
  \/ \E r \in RosterInputs, u \in Users : unpublishRoster(r, u)
  \/ \E r \in RosterInputs, u \in Users : deleteRoster(r, u)
  \/ \E w \in 1..OwnerWorkspaces, y \in Years, u \in Users : getRoster(w, 1, y, u)
  \/ \E w \in 1..OwnerWorkspaces, u \in Users :
       /\ requestLeave(w, 1, 1, u)
       /\ BagCardinality(leaveRequests') <= OwnerLeaveRequests
  \/ \E l \in LeaveIds, u \in Users : approveLeaveRequest(l, u)
  \/ \E l \in LeaveIds, u \in Users : rejectLeaveRequest(l, u)

SpecOwner == Init /\ [][NextOwner]_vars

\* Workspaces created by either user and patched with any body, next to the
\* enrollment, invitation, roster and leave operations on them.
NextOwnership ==
  \/ \E u \in Users : nextWorkspaceId \in 1..OwnerWorkspaces /\ create(u)
  \/ \E w \in 1..OwnerWorkspaces, b \in UpdateWorkspaceBodies, u \in Users :
       PatchWorkspace(w, b, u)
  \/ \E w \in 1..OwnerWorkspaces, u \in Users, fk \in FkActions : remove(w, u, fk)
  \/ \E w \in 1..OwnerWorkspaces, u \in Users :
       /\ requestEnrollment(w, u)
       /\ BagCardinality(enrollmentRequests') <= OwnerRequests
  \/ \E r \in RequestIds, u \in Users : approveEnrollmentRequest(r, u)
  \/ \E w \in 1..OwnerWorkspaces, u \in Users : unenrollFromWorkspace(w, u)
  \/ \E w \in 1..OwnerWorkspaces, u \in Users :
       /\ createInvitation(w, UserEmail(2), u, getUserByEmail(UserEmail(2)))
       /\ BagCardinality(invitations') <= MaxInvitations
  \/ \E i \in InvitationIds, u \in Users : acceptInvitation(i, u, UserEmail(u))
  \/ \E w \in 1..OwnerWorkspaces, y \in Years, u \in Users :
       \E a \in OneCellArrays :
         /\ saveRoster(w, 1, y, a, u)
         /\ Cardinality(rosters') <= OwnerRosters
  \/ \E r \in RosterInputs, u \in Users : publishRoster(r, u)
  \/ \E w \in 1..OwnerWorkspaces, u \in Users :
       /\ requestLeave(w, 1, 1, u)
       /\ BagCardinality(leaveRequests') <= OwnerLeaveRequests
  \/ \E l \in LeaveIds, u \in Users : approveLeaveRequest(l, u)

SpecOwnership == Init /\ [][NextOwnership]_vars

\* Calls that run at the same time: up to MaxInflight calls of
\* requestEnrollment, approveEnrollmentRequest and acceptInvitation whose
\* statements interleave, on the workspaces 1..RaceWorkspaces of user 1, whom
\* and user 2 the owner invites.
NextRace ==
  \/ nextWorkspaceId \in 1..RaceWorkspaces /\ create(1)
  \/ \E slot \in Slots, w \in 1..RaceWorkspaces, u \in Users :
       /\ BeginRequestEnrollment(slot, w, u)
       /\ BagCardinality(enrollmentRequests)
            + Cardinality({x \in Slots : inflight'[x].op = "requestEnrollment"})
          <= RaceRequests
  \/ \E slot \in Slots : StepRequestEnrollment(slot)
  \/ \E slot \in Slots, r \in RequestIds, u \in Users :
       BeginApproveEnrollmentRequest(slot, r, u)
  \/ \E slot \in Slots : StepApproveEnrollmentRequest(slot)
  \/ \E w \in 1..RaceWorkspaces, t \in Users :
       /\ createInvitation(w, UserEmail(t), 1, getUserByEmail(UserEmail(t)))
       /\ BagCardinality(invitations') <= MaxInvitations
  \/ \E slot \in Slots, i \in InvitationIds, u \in Users :
       BeginAcceptInvitation(slot, i, u, UserEmail(u))
  \/ \E slot \in Slots : StepAcceptInvitation(slot)

SpecRace == Init /\ [][NextRace]_vars

\* Up to MaxInflight calls of createInvitation whose statements interleave,
\* for the workspaces 1..InviteWorkspaces of user 1, and the answers of the
\* invited.
NextInviteRace ==
  \/ nextWorkspaceId \in 1..InviteWorkspaces /\ create(1)
  \/ \E slot \in Slots, w \in 1..InviteWorkspaces, e \in EmailInputs, u \in Users :
       /\ BeginCreateInvitation(slot, w, e, u)
       /\ BagCardinality(invitations)
            + Cardinality({x \in Slots : inflight'[x].op = "createInvitation"})
          <= RaceInvitations
  \/ \E slot \in Slots : StepCreateInvitation(slot)
  \/ \E i \in InvitationIds, u \in Users :
       \E e \in CallerEmails(u) : acceptInvitation(i, u, e)
  \/ \E i \in InvitationIds, u \in Users :
       \E e \in CallerEmails(u) : rejectInvitation(i, u, e)
  \/ \E i \in InvitationIds, u \in Users : cancelInvitation(i, u)

SpecInviteRace == Init /\ [][NextInviteRace]_vars

\* Up to MaxInflight calls of saveRoster whose statements interleave, for the
\* workspaces 1..RosterWorkspaces of user 1, with the rosters published and
\* withdrawn in between.
NextRosterRace ==
  \/ nextWorkspaceId \in 1..RosterWorkspaces /\ create(1)
  \/ \E slot \in Slots, w \in 1..RosterWorkspaces, m \in Months, y \in Years,
        a \in OneCellArrays, u \in Users : BeginSaveRoster(slot, w, m, y, a, u)
  \/ \E slot \in Slots : StepSaveRoster(slot)
  \/ \E r \in RosterInputs, u \in Users : publishRoster(r, u)
  \/ \E r \in RosterInputs, u \in Users : unpublishRoster(r, u)

SpecRosterRace == Init /\ [][NextRosterRace]_vars

\* The request rows of a workspace and user.
RequestsOf(reqs, w, u) == {r \in DOMAIN reqs : r.workspaceId = w /\ r.userId = u}

\* Up to MaxInflight decisions on enrollment requests whose statements
\* interleave, on the workspaces 1..RaceWorkspaces of user 1; each user asks
\* once for each workspace, so a request row is known by its workspace and
\* user.
NextDecideRace ==
  \/ nextWorkspaceId \in 1..RaceWorkspaces /\ create(1)
  \/ \E w \in 1..RaceWorkspaces, u \in Users :
       /\ RequestsOf(enrollmentRequests, w, u) = {}
       /\ requestEnrollment(w, u)
  \/ \E slot \in Slots, r \in RequestIds, u \in Users :
       BeginApproveEnrollmentRequest(slot, r, u)
  \/ \E slot \in Slots : StepApproveEnrollmentRequest(slot)
  \/ \E slot \in Slots, r \in RequestIds, u \in Users :
       BeginRejectEnrollmentRequest(slot, r, u)
  \/ \E slot \in Slots : StepRejectEnrollmentRequest(slot)

SpecDecideRace == Init /\ [][NextDecideRace]_vars

\* The arrays of at most RaceCells cells, of either user on day 1.
RaceCellArrays ==
  {a \in AssignmentArrays :
     /\ Len(a) <= RaceCells
     /\ \A i \in DOMAIN a : a[i].day = 1 /\ a[i].dutyType = "M" /\ ~a[i].isOvertime}

\* Up to MaxInflight calls of saveRoster whose statements interleave, for
\* month 1 of the workspaces 1..RosterWorkspaces of user 1, each call carrying
\* the cell of one user at most.
NextSaveRace ==
  \/ nextWorkspaceId \in 1..RosterWorkspaces /\ create(1)
  \/ \E slot \in Slots, w \in 1..RosterWorkspaces, y \in Years,
        a \in RaceCellArrays, u \in Users : BeginSaveRoster(slot, w, 1, y, a, u)
  \/ \E slot \in Slots : StepSaveRoster(slot)

SpecSaveRace == Init /\ [][NextSaveRace]_vars

\* Requests behind the guard: each is received, and the handler of a request
\* that was let through runs with the user the guard attached.
NextGuard ==
  \/ \E header \in AuthHeaders, supabase \in SupabaseAnswers : Receive(header, supabase)
  \/ Admitted /\ nextWorkspaceId \in 1..GuardWorkspaces /\ create(last.userId)
  \/ /\ Admitted
     /\ \E w \in 1..GuardWorkspaces :
          /\ requestEnrollment(w, last.userId)
          /\ BagCardinality(enrollmentRequests') <= GuardRequests
  \/ Admitted /\ \E r \in RequestIds : approveEnrollmentRequest(r, last.userId)
  \/ Admitted /\ \E w \in 1..GuardWorkspaces : unenrollFromWorkspace(w, last.userId)

SpecGuard == Init /\ [][NextGuard]_vars

\* Workspaces are created and renamed, and searched.
NextSearch ==
  \/ nextWorkspaceId \in 1..SearchWorkspaces /\ create(1)
  \/ \E id \in 1..RenamedWorkspaces, name \in Names : update(id, name, 1)
  \/ \E query \in Queries : searchWorkspaces(query)

SpecSearch == Init /\ [][NextSearch]_vars

\* Up to MaxInflight calls of requestLeave whose statements interleave, by the
\* members of the workspaces 1..LeaveWorkspaces of user 1, and the decisions
\* on the requests stored.
NextLeaveRace ==
  \/ nextWorkspaceId \in 1..LeaveWorkspaces /\ create(1)
  \/ \E w \in 1..LeaveWorkspaces, u \in Users :
       /\ requestEnrollment(w, u)
       /\ BagCardinality(enrollmentRequests') <= LeaveEnrollmentRequests
  \/ \E r \in RequestIds, u \in Users : approveEnrollmentRequest(r, u)
  \/ \E slot \in Slots, w \in 1..LeaveWorkspaces, s \in LeaveDays, e \in LeaveDays,
        u \in Users :
       /\ BeginRequestLeave(slot, w, s, e, u)
       /\ BagCardinality(leaveRequests)
            + Cardinality({x \in Slots : inflight'[x].op = "requestLeave"})
          <= MaxLeaveRequests
  \/ \E slot \in Slots : StepRequestLeave(slot)
  \/ \E l \in LeaveIds, u \in Users : approveLeaveRequest(l, u)
  \/ \E l \in LeaveIds, u \in Users : rejectLeaveRequest(l, u)
  \/ \E l \in LeaveIds, u \in Users : cancelLeaveRequest(l, u)

SpecLeaveRace == Init /\ [][NextLeaveRace]_vars

\* ================================================================== claims
AllWorkspaceIds == 1..(MaxWorkspaces + FavoriteWorkspaces + PublishedWorkspaces)
EnrollmentCount(enrs, w, u) == Cardinality({i \in DOMAIN enrs[u] : enrs[u][i] = w})
Enrolled(enrs, w, u) == EnrollmentCount(enrs, w, u) > 0
PendingCount(reqs, w, u) == CopiesIn(RequestRow(w, u, "pending"), reqs)
FavoritesOf(favs, u) ==
  BagCardinality([f \in {x \in DOMAIN favs : x.userId = u} |-> favs[f]])

C2_OwnerAutoApproved ==
  /\ [](\A w \in workspaces : PendingCount(enrollmentRequests, w.id, w.ownerId) = 0)
  /\ [][\A w \in AllWorkspaceIds, u \in Users :
          ( /\ WorkspaceFindOne(w) # {}
            /\ OwnerOf(w) = u
            /\ ~Enrolled(enrollments, w, u)
            /\ requestEnrollment(w, u) )
          => /\ last'.result = "enrolled"
             /\ EnrollmentCount(enrollments', w, u) = 1
             /\ CopiesIn(RequestRow(w, u, "approved"), enrollmentRequests') =
                  CopiesIn(RequestRow(w, u, "approved"), enrollmentRequests) + 1
             /\ PendingCount(enrollmentRequests', w, u) = 0
     ]_vars

C2_Witness ==
  /\ last.op = "requestEnrollment" /\ last.result = "enrolled"
  /\ \E w \in workspaces :
       /\ w.ownerId = last.userId /\ w.id = last.workspaceId
       /\ Enrolled(enrollments, w.id, w.ownerId)
       /\ BagIn(RequestRow(w.id, w.ownerId, "approved"), enrollmentRequests)

\* C3: approving a pending request whose user is already enrolled (the user
\* accepted an invitation meanwhile) adds no Enrollment, marks the request
\* approved and returns the Enrollment that was there.
C3_ApproveExistingEnrollment ==
  [][\A r \in DOMAIN enrollmentRequests, o \in Users :
       ( /\ r.status = "pending"
         /\ OwnerOf(r.workspaceId) = o
         /\ Enrolled(enrollments, r.workspaceId, r.userId)
         /\ approveEnrollmentRequest(r, o) )
       => /\ enrollments' = enrollments
          /\ EnrollmentCount(enrollments', r.workspaceId, r.userId) = 1
          /\ enrollmentRequests' =
               BagAdd(BagRemoveOne(enrollmentRequests, r),
                      RequestRow(r.workspaceId, r.userId, "approved"))
          /\ last'.result = "existing"
          /\ last'.ret \in DOMAIN enrollments[r.userId]
          /\ enrollments[r.userId][last'.ret] = r.workspaceId
    ]_vars

C3_Witness ==
  /\ last.op = "approveEnrollmentRequest" /\ last.result = "existing"
  /\ EnrollmentCount(enrollments, last.workspaceId, last.userId) = 1
  /\ BagIn(RequestRow(last.workspaceId, last.userId, "approved"), enrollmentRequests)
  /\ \E i \in DOMAIN invitations : i.status = "accepted"

\* What requestEnrollment answers a user who has no row of any kind for the
\* workspace.
FreshOutcome(w, u) == IF OwnerOf(w) = u THEN "enrolled" ELSE "pending"

\* C4: a successful unenrollFromWorkspace leaves no Enrollment and no
\* EnrollmentRequest of any status for the pair, and requestEnrollment right
\* after it answers as for a user who never met the workspace.
C4_UnenrollStartsClean ==
  [][\A w \in AllWorkspaceIds, u \in Users :
       /\ (last'.result = "ok" /\ unenrollFromWorkspace(w, u))
          => /\ EnrollmentCount(enrollments', w, u) = 0
             /\ RequestsOf(enrollmentRequests', w, u) = {}
       /\ ( /\ last = Call("unenrollFromWorkspace", u, w, "ok", NoId)
            /\ requestEnrollment(w, u) )
          => /\ last'.result = FreshOutcome(w, u)
             /\ Cardinality(RequestsOf(enrollmentRequests', w, u)) = 1
    ]_vars

C4_Witness ==
  /\ last.op = "unenrollFromWorkspace" /\ last.result = "ok"
  /\ EnrollmentCount(enrollments, last.workspaceId, last.userId) = 0
  /\ \E w \in workspaces : w.id = last.workspaceId /\ w.ownerId # last.userId

\* C5: every user has at most one UserFavorite row.
C5_AtMostOneFavorite ==
  \A u \in Users : FavoritesOf(userFavorites, u) <= 1

\* C5 witness: a user whose favorite is another workspace has been enrolled,
\* which ran autoSetFirstFavorite over the favorite that was there.
C5_Witness ==
  /\ last.op \in {"acceptInvitation", "approveEnrollmentRequest", "requestEnrollment"}
  /\ last.result \in {"ok", "created", "enrolled"}
  /\ FavoritesOf(userFavorites, last.userId) = 1
  /\ \E f \in DOMAIN userFavorites :
       f.userId = last.userId /\ f.workspaceId # last.workspaceId

\* The user's remaining enrollment with the oldest enrolledAt, once the rows of
\* workspace w are gone: the one no other remaining enrollment precedes.
OldestRemaining(enrs, w, u) ==
  LET rest == {i \in DOMAIN enrs[u] : enrs[u][i] # w}
  IN {enrs[u][i] : i \in {j \in rest : \A k \in rest : j <= k}}

\* C6: when unenrollFromWorkspace or removeUserFromWorkspace removes the
\* enrollment of u in w and the favorite of u was w, the favorite becomes the
\* remaining enrollment of u with the oldest enrolledAt, or is deleted when
\* none remains; a favorite on another workspace is left as it is.
C6_FavoriteShiftsToOldest ==
  [][\A w \in AllWorkspaceIds, u \in Users :
       ( /\ last'.result = "ok"
         /\ last'.op \in {"unenrollFromWorkspace", "removeUserFromWorkspace"}
         /\ \/ unenrollFromWorkspace(w, u)
            \/ \E o \in Users : removeUserFromWorkspace(w, u, o) )
       => IF BagIn(FavoriteRow(u, w), userFavorites)
          THEN LET oldest == OldestRemaining(enrollments, w, u)
               IN IF oldest = {}
                  THEN FavoritesOf(userFavorites', u) = 0
                  ELSE /\ FavoritesOf(userFavorites', u) = 1
                       /\ \E x \in oldest : BagIn(FavoriteRow(u, x), userFavorites')
          ELSE userFavorites' = userFavorites
    ]_vars

\* C6 witness: an enrollment has just been removed, two enrollments remain and
\* the favorite is the older of them.
C6_Witness ==
  /\ last.op \in {"unenrollFromWorkspace", "removeUserFromWorkspace"}
  /\ last.result = "ok"
  /\ Len(enrollments[last.userId]) = 2
  /\ BagIn(FavoriteRow(last.userId, Head(enrollments[last.userId])), userFavorites)

\* The rows of the roster of (w, month, year), as cells.
PersistedCells(w, month, year) ==
  {AssignmentView(a) :
     a \in AssignmentsOf([workspaceId |-> w, month |-> month, year |-> year])}
\* The positions of an input array whose dutyType is not empty.
NonEmpty(assignments) == {i \in DOMAIN assignments : assignments[i].dutyType # ""}

\* C7: after a successful saveRoster by the owner the RosterAssignment rows of
\* the roster are exactly the input assignments with a non-empty dutyType, one
\* row each, whatever was stored before; no row with an empty dutyType is ever
\* stored; saving the same input again leaves the stored rows as they are.
C7_SaveRosterReplaces ==
  /\ [](\A a \in rosterAssignments : a.dutyType # "")
  /\ []((last.op = "saveRoster" /\ last.result = "ok")
        => LET input == last.args.assignments
               rosterId == [workspaceId |-> last.workspaceId,
                            month |-> last.args.month, year |-> last.args.year]
           IN /\ PersistedCells(last.workspaceId, last.args.month, last.args.year) =
                   {input[i] : i \in NonEmpty(input)}
              /\ Cardinality(AssignmentsOf(rosterId)) = Cardinality(NonEmpty(input)))
  /\ [][(/\ last.op = "saveRoster" /\ last.result = "ok"
         /\ saveRoster(last.workspaceId, last.args.month, last.args.year,
                       last.args.assignments, last.userId))
        => /\ last' = last
           /\ rosterAssignments' = rosterAssignments
           /\ rosters' = rosters]_vars

\* C7 witness: a roster has been saved twice, the second time with an array
\* that holds an empty cell and a cell of another user than the one stored
\* before; the other month's roster keeps its rows.
C7_Witness ==
  /\ last.op = "saveRoster" /\ last.result = "ok"
  /\ Len(last.args.assignments) = 2
  /\ Cardinality(NonEmpty(last.args.assignments)) = 1
  /\ Cardinality(PersistedCells(last.workspaceId, last.args.month, last.args.year)) = 1
  /\ \E r \in rosters :
       /\ r.workspaceId = last.workspaceId /\ r.month = last.args.month
       /\ r.status = "published"
  /\ \E a \in rosterAssignments : a.rosterId.month # last.args.month

OwnerApproves(w, u) ==
  approveEnrollmentRequest(RequestRow(w, u, "pending"), OwnerOf(w))
\* A non-owner u holds a pending request for w and no enrollment in w.
AwaitsApproval(w, u) ==
  /\ WorkspaceFindOne(w) # {}
  /\ OwnerOf(w) # u
  /\ PendingCount(enrollmentRequests, w, u) > 0
  /\ ~Enrolled(enrollments, w, u)

OwedRosters(u, month, year) ==
  {[rosterId |-> RosterId(r), workspaceId |-> r.workspaceId,
    month |-> r.month, year |-> r.year,
    assignments |->
      SetToBag({[day |-> a.day, shiftPeriod |-> a.shiftPeriod,
                 dutyType |-> a.dutyType, isOvertime |-> a.isOvertime] :
                  a \in {x \in rosterAssignments :
                           x.rosterId = RosterId(r) /\ x.userId = u}})] :
     r \in {x \in rosters : /\ x.month = month /\ x.year = year
                            /\ x.status = "published"
                            /\ Enrolled(enrollments, x.workspaceId, u)}}

\* C10: getUserPublishedRosters(U, month, year) returns one entry for each
\* published roster of the month and year in a workspace where U is enrolled,
\* and no other entry; an entry holds exactly the assignments of U in its
\* roster.
C10_OnlyOwnPublishedRosters ==
  (last.op = "getUserPublishedRosters")
  => last.rows = OwedRosters(last.userId, last.args.month, last.args.year)

\* C10 witness: the user has been answered one entry with one assignment while
\* another user has an assignment in the same roster and another roster of the
\* same month is published in a workspace the user is not enrolled in.
C10_Witness ==
  /\ last.op = "getUserPublishedRosters"
  /\ \E entry \in last.rows :
       /\ last.rows = {entry}
       /\ BagCardinality(entry.assignments) = 1
       /\ \E a \in rosterAssignments :
            a.rosterId = entry.rosterId /\ a.userId # last.userId
       /\ \E r \in rosters :
            /\ r.workspaceId # entry.workspaceId
            /\ r.month = entry.month /\ r.status = "published"
            /\ ~Enrolled(enrollments, r.workspaceId, last.userId)

\* Workspace workspaceId exists and userId is not its owner.
NotOwner(workspaceId, userId) ==
  \E w \in workspaces : w.id = workspaceId /\ w.ownerId # userId
\* The call is refused as forbidden and no stored entity changes.
Denied == last'.result = "Forbidden" /\ UNCHANGED dbVars

\* C11: each of the thirteen operations reserved to the owner, called on an
\* existing target by a user who is not the owner of the workspace concerned,
\* fails with Forbidden and leaves every stored entity unchanged.
C11_NonOwnerForbidden ==
  [][\A u \in Users :
       /\ (/\ last'.op = "update"
           /\ \E w \in workspaces, n \in Names : NotOwner(w.id, u) /\ update(w.id, n, u))
          => Denied
       /\ (/\ last'.op = "remove"
           /\ \E w \in workspaces, fk \in FkActions :
                NotOwner(w.id, u) /\ remove(w.id, u, fk))
          => Denied
       /\ (/\ last'.op = "approveEnrollmentRequest"
           /\ \E r \in DOMAIN enrollmentRequests :
                NotOwner(r.workspaceId, u) /\ approveEnrollmentRequest(r, u))
          => Denied
       /\ (/\ last'.op = "rejectEnrollmentRequest"
           /\ \E r \in DOMAIN enrollmentRequests :
                NotOwner(r.workspaceId, u) /\ rejectEnrollmentRequest(r, u))
          => Denied
       /\ (/\ last'.op = "removeUserFromWorkspace"
           /\ \E w \in workspaces, t \in Users :
                NotOwner(w.id, u) /\ removeUserFromWorkspace(w.id, t, u))
          => Denied
       /\ (/\ last'.op = "createInvitation"
           /\ \E w \in workspaces, e \in EmailInputs :
                /\ NotOwner(w.id, u)
                /\ \E lookup \in {getUserByEmail(e), {}} :
                     createInvitation(w.id, e, u, lookup))
          => Denied
       /\ (/\ last'.op = "cancelInvitation"
           /\ \E i \in DOMAIN invitations :
                NotOwner(i.workspaceId, u) /\ cancelInvitation(i, u))
          => Denied
       /\ (/\ last'.op = "saveRoster"
           /\ \E w \in workspaces, m \in Months, y \in Years, a \in OneCellArrays :
                NotOwner(w.id, u) /\ saveRoster(w.id, m, y, a, u))
          => Denied
       /\ (/\ last'.op = "publishRoster"
           /\ \E r \in rosters : NotOwner(r.workspaceId, u) /\ publishRoster(r, u))
          => Denied
       /\ (/\ last'.op = "unpublishRoster"
           /\ \E r \in rosters : NotOwner(r.workspaceId, u) /\ unpublishRoster(r, u))
          => Denied
       /\ (/\ last'.op = "deleteRoster"
           /\ \E r \in rosters : NotOwner(r.workspaceId, u) /\ deleteRoster(r, u))
          => Denied
       /\ (/\ last'.op = "approveLeaveRequest"
           /\ \E l \in DOMAIN leaveRequests :
                NotOwner(l.workspaceId, u) /\ approveLeaveRequest(l, u))
          => Denied
       /\ (/\ last'.op = "rejectLeaveRequest"
           /\ \E l \in DOMAIN leaveRequests :
                NotOwner(l.workspaceId, u) /\ rejectLeaveRequest(l, u))
          => Denied]_vars

\* An enrolled member who is not the owner was refused the approval of a
\* pending leave request.
C11_Witness ==
  /\ last.op = "approveLeaveRequest" /\ last.result = "Forbidden"
  /\ \E l \in DOMAIN leaveRequests :
       /\ l.status = "pending"
       /\ \E w \in workspaces : w.id = l.workspaceId /\ w.ownerId = 1
  /\ EnrollmentFindOne(enrollments, 1, 2) # {}

\* C12: createInvitation by the owner with an email that normalises to the
\* owner's own email is rejected with an error and creates no Invitation.
C12_SelfInvitationRejected ==
  [][\A w \in workspaces, e \in EmailInputs :
       (/\ last'.op = "createInvitation"
        /\ trim(toLowerCase(e)) = toLowerCase(UserEmail(w.ownerId))
        /\ \E lookup \in {getUserByEmail(e), {}} :
             createInvitation(w.id, e, w.ownerId, lookup))
       => last'.result # "ok" /\ invitations' = invitations]_vars

\* C13: when remove(w) by the owner completes, no UserFavorite points at w:
\* the favorite of each user who was enrolled in w and had w as favorite now
\* points at the user's oldest enrollment in another workspace, or is deleted
\* when the user has no other enrollment.
C13_RemoveShiftsFavorites ==
  [][\A w \in workspaces, fk \in FkActions :
       ( /\ last'.op = "remove"
         /\ last'.result = "ok"
         /\ remove(w.id, w.ownerId, fk) )
       => /\ \A f \in DOMAIN userFavorites' : f.workspaceId # w.id
          /\ \A u \in Users :
               ( /\ Enrolled(enrollments, w.id, u)
                 /\ BagIn(FavoriteRow(u, w.id), userFavorites) )
               => LET oldest == OldestRemaining(enrollments, w.id, u)
                  IN IF oldest = {}
                     THEN FavoritesOf(userFavorites', u) = 0
                     ELSE /\ FavoritesOf(userFavorites', u) = 1
                          /\ \E x \in oldest : BagIn(FavoriteRow(u, x), userFavorites')
    ]_vars

\* C14: when remove(w) by the owner completes, the Workspace row w is gone, no
\* Enrollment and no EnrollmentRequest of w remains, and the Enrollments and
\* EnrollmentRequests of the other workspaces are what they were.
C14_RemoveCascades ==
  [][\A w \in workspaces, fk \in FkActions :
       ( /\ last'.op = "remove"
         /\ last'.result = "ok"
         /\ remove(w.id, w.ownerId, fk) )
       => /\ \A x \in workspaces' : x.id # w.id
          /\ \A u \in Users :
               /\ ~Enrolled(enrollments', w.id, u)
               /\ \A v \in AllWorkspaceIds \ {w.id} :
                    EnrollmentCount(enrollments', v, u) = EnrollmentCount(enrollments, v, u)
          /\ \A r \in DOMAIN enrollmentRequests \cup DOMAIN enrollmentRequests' :
               IF r.workspaceId = w.id
               THEN ~BagIn(r, enrollmentRequests')
               ELSE CopiesIn(r, enrollmentRequests') = CopiesIn(r, enrollmentRequests)
    ]_vars

\* A workspace in which a user was enrolled (the user's favorite still names
\* it) has just been removed, and an enrollment and a request of the other
\* workspace are still there.
C14_Witness ==
  /\ last.op = "remove" /\ last.result = "ok"
  /\ WorkspaceFindOne(last.workspaceId) = {}
  /\ \E f \in DOMAIN userFavorites : f.workspaceId = last.workspaceId
  /\ \E u \in Users : enrollments[u] # <<>>
  /\ enrollmentRequests # EmptyBag

\* C15: in every reachable state, the states between the database statements
\* of concurrent requestEnrollment, approveEnrollmentRequest and
\* acceptInvitation calls included, at most one Enrollment row exists for a
\* workspace and a user.
C15_OneEnrollmentPerPair ==
  \A w \in AllWorkspaceIds, u \in Users : EnrollmentCount(enrollments, w, u) <= 1

\* Two calls passed the check for an existing enrollment of the same pair, and
\* the insert of the second one was refused.
C15_Witness ==
  /\ last.op \in {"requestEnrollment", "approveEnrollmentRequest", "acceptInvitation"}
  /\ last.result = "InternalError"
  /\ Enrolled(enrollments, last.workspaceId, last.userId)

\* C16: in every reachable state, the states between the statements of
\* concurrent requestLeave calls of one user for one workspace included, no
\* two pending LeaveRequests of the same workspace and user have overlapping
\* inclusive date ranges.
C16_NoOverlappingPending ==
  \A l \in DOMAIN leaveRequests :
    l.status = "pending" =>
      /\ leaveRequests[l] = 1
      /\ \A k \in DOMAIN leaveRequests \ {l} :
           ( /\ k.status = "pending"
             /\ k.workspaceId = l.workspaceId /\ k.userId = l.userId )
           => (k.endDate < l.startDate \/ l.endDate < k.startDate)

\* C17: acceptInvitation tests in this order: no such invitation, NotFound; an
\* invitation that is not pending, BadRequest; the caller's lower-cased and
\* trimmed e-mail is not the inviteeEmail, Forbidden; the caller is enrolled in
\* the invitation's workspace, Conflict; and each failure leaves the
\* invitations and the enrollments as they were.  Otherwise one Enrollment of
\* the caller in the invitation's workspace is created and the invitation
\* becomes accepted.
C17_AcceptInvitationOrder ==
  [][\A i \in InvitationIds, u \in Users, e \in EmailInputs :
       (last'.op = "acceptInvitation" /\ acceptInvitation(i, u, e))
       => LET failure ==
                IF i = NoInvitation THEN "NotFound"
                ELSE IF i.status # "pending" THEN "BadRequest"
                ELSE IF trim(toLowerCase(e)) # i.inviteeEmail THEN "Forbidden"
                ELSE IF Enrolled(enrollments, i.workspaceId, u) THEN "Conflict"
                ELSE "none"
          IN IF failure # "none"
             THEN /\ last'.result = failure
                  /\ invitations' = invitations
                  /\ enrollments' = enrollments
             ELSE /\ last'.result = "ok"
                  /\ EnrollmentCount(enrollments', i.workspaceId, u) = 1
                  /\ \A w \in AllWorkspaceIds, v \in Users :
                       (w # i.workspaceId \/ v # u)
                       => EnrollmentCount(enrollments', w, v)
                            = EnrollmentCount(enrollments, w, v)
                  /\ invitations' = BagAdd(BagRemoveOne(invitations, i),
                                           [i EXCEPT !.status = "accepted"])
    ]_vars

\* The last of the four tests has just refused an accept: a user who is
\* enrolled in the workspace holds a pending invitation to it.
C17_Witness ==
  /\ last.op = "acceptInvitation" /\ last.result = "Conflict"
  /\ \E i \in DOMAIN invitations, u \in Users :
       /\ i.status = "pending"
       /\ i.inviteeEmail = UserEmail(u)
       /\ Enrolled(enrollments, i.workspaceId, u)

SameRosterAfter(roster) == {r \in rosters' : RosterId(r) = RosterId(roster)}

\* C19: publishRoster by the owner sets the roster's status to published and
\* stamps publishedAt and publishedBy with the owner's id; unpublishRoster sets
\* the status to draft and clears both; and in every reachable state a roster
\* is published if and only if its publishedBy and publishedAt are set, and
\* publishedBy is then the owner of the roster's workspace.
C19_PublishedIffStamped ==
  /\ [][last'.op \in {"publishRoster", "unpublishRoster"} /\ last'.result = "ok" =>
        \A roster \in rosters :
          /\ publishRoster(roster, OwnerOf(roster.workspaceId))
             => SameRosterAfter(roster) =
                  {[roster EXCEPT !.status = "published", !.publishedAt = "date",
                                  !.publishedBy = OwnerOf(roster.workspaceId)]}
          /\ unpublishRoster(roster, OwnerOf(roster.workspaceId))
             => SameRosterAfter(roster) =
                  {[roster EXCEPT !.status = "draft", !.publishedAt = "null",
                                  !.publishedBy = NoId]}
       ]_vars
  /\ [](\A roster \in rosters :
          /\ roster.status = "published"
             <=> (roster.publishedBy # NoId /\ roster.publishedAt # "null")
          /\ roster.status = "published"
             => /\ WorkspaceFindOne(roster.workspaceId) # {}
                /\ roster.publishedBy = OwnerOf(roster.workspaceId))

\* A roster has been published and unpublished again, next to one that is
\* published: the first carries no stamp, the second the owner's.
C19_Witness ==
  /\ last.op = "unpublishRoster" /\ last.result = "ok"
  /\ \E d \in rosters, r \in rosters :
       /\ d.status = "draft" /\ d.publishedBy = NoId /\ d.publishedAt = "null"
       /\ d.workspaceId = last.workspaceId
       /\ r.status = "published" /\ r.publishedBy = 1 /\ r.publishedAt = "date"

WellFormed(q) ==
  /\ q.authorization.kind = "string"
  /\ q.authorization.scheme = "Bearer "
  /\ q.authorization.tokenLength >= 10
  /\ q.supabase.outcome = "user"
  /\ q.supabase.id # NoId
  /\ q.supabase.hasEmail

\* C21: the guard lets a request through only if its Authorization header is
\* 'Bearer <token>' with a token of at least 10 characters that verifyToken
\* resolved to a user with id and email, and attaches that user; every other
\* request ends with Unauthorized; and a handler runs only for a request the
\* guard let through.
C21_GuardAdmits ==
  /\ [](last.op = "canActivate" =>
         \A q \in last.rows :
           IF WellFormed(q)
           THEN last.result = "ok" /\ last.userId = q.supabase.id
           ELSE last.result = "Unauthorized" /\ last.userId = NoId)
  /\ [][IF last'.op = "canActivate"
        THEN UNCHANGED dbVars
        ELSE Admitted /\ \A q \in last.rows : WellFormed(q)]_vars

\* A workspace exists, so a request was let through to create, and the last
\* request, a Bearer token of ten characters whose user has no email, was
\* refused.
C21_Witness ==
  /\ workspaces # {}
  /\ last.op = "canActivate" /\ last.result = "Unauthorized"
  /\ \E q \in last.rows :
       /\ q.authorization.scheme = "Bearer " /\ q.authorization.tokenLength = 10
       /\ q.supabase.outcome = "user" /\ q.supabase.id # NoId /\ ~q.supabase.hasEmail

\* The letter in lower case.
Lower(c) == IF c = "W" THEN "w" ELSE IF c = "A" THEN "a" ELSE IF c = "B" THEN "b" ELSE c
\* text contains part as a substring, ignoring letter case.
ContainsIgnoringCase(text, part) ==
  \E i \in 0..(Len(text) - Len(part)) :
    \A k \in 1..Len(part) : Lower(text[i + k]) = Lower(part[k])
\* The workspaces whose name contains the text, ignoring letter case.
NameMatches(text) == {w \in workspaces : ContainsIgnoringCase(Chars(w.name), text)}

\* C22: a search by a UUID-shaped query returns the workspace with that id, or
\* the empty list; a search by any other query returns the workspaces whose
\* name contains the query ignoring letter case, newest first, at most 20.
C22_Search ==
  last.op = "searchWorkspaces" =>
    \A q \in last.rows :
      IF q.query.uuid
      THEN \/ q.found = <<>> /\ WorkspaceFindOne(q.query.id) = {}
           \/ Len(q.found) = 1 /\ q.found[1] \in workspaces /\ q.found[1].id = q.query.id
      ELSE LET matches == NameMatches(q.query.text)
           IN /\ Len(q.found) = IF Cardinality(matches) < 20 THEN Cardinality(matches) ELSE 20
              /\ \A i \in 1..Len(q.found) : q.found[i] \in matches
              /\ \A i \in 1..Len(q.found), j \in 1..Len(q.found) :
                   i < j => q.found[i].id > q.found[j].id
              /\ \A w \in matches :
                   (\A i \in 1..Len(q.found) : q.found[i] # w) =>
                     \A i \in 1..Len(q.found) : q.found[i].id > w.id

\* C23: in every reachable state, also with two requestEnrollment calls of
\* the same user for the same workspace in flight, at most one pending
\* EnrollmentRequest exists per workspace and user.
C23_OnePendingRequestPerPair ==
  \A w \in AllWorkspaceIds, u \in Users : PendingCount(enrollmentRequests, w, u) <= 1

\* The pending invitations of a workspace sent to a normalised address.
PendingInvitations(w, mailbox) ==
  CopiesIn(InvitationRow(w, Email(mailbox, FALSE, FALSE), "pending"), invitations)

\* C24: in every reachable state, also with createInvitation calls of the
\* owner for the same workspace and address in flight, at most one pending
\* Invitation exists per workspace and normalised address.
C24_OnePendingInvitationPerPair ==
  \A w \in AllWorkspaceIds, m \in 1..(NumUsers + 1) : PendingInvitations(w, m) <= 1

\* C25: in every reachable state, also with two first saveRoster calls for the
\* same workspace, month and year in flight, at most one Roster row exists per
\* workspace, month and year.
C25_OneRosterPerMonth ==
  \A r1 \in rosters, r2 \in rosters : RosterId(r1) = RosterId(r2) => r1 = r2

\* The second of two first saves of a month found no roster, and its insert
\* was refused because the first had inserted the roster meanwhile.
C25_Witness ==
  /\ last.op = "saveRoster" /\ last.result = "InternalError"
  /\ \E r \in rosters : r.workspaceId = last.workspaceId
  /\ rosterAssignments = {}

\* A decision on an enrollment request has just ended.
Decided(result) ==
  /\ last' # last
  /\ last'.op \in {"approveEnrollmentRequest", "rejectEnrollmentRequest"}
  /\ last'.result = result

\* C26: approveEnrollmentRequest and rejectEnrollmentRequest fail with
\* BadRequest and change nothing on a request that is approved or rejected,
\* and an EnrollmentRequest that is approved or rejected never changes its
\* status again, also when an approve and a reject of the same request run
\* with interleaved steps.
C26_DecisionIsFinal ==
  /\ [][Decided("BadRequest") => UNCHANGED dbVars]_vars
  /\ [][\A r \in DOMAIN enrollmentRequests :
          r.status \in {"approved", "rejected"} =>
            CopiesIn(r, enrollmentRequests') >= CopiesIn(r, enrollmentRequests)]_vars

\* The owner's decision on a stored leave request: a pending one is given the
\* status, a decided one is refused with BadRequest and nothing changes.
LeaveDecisionOutcome(l, status) ==
  IF l.status = "pending"
  THEN /\ last'.result = "ok"
       /\ leaveRequests' = BagAdd(BagRemoveOne(leaveRequests, l),
                                  [l EXCEPT !.status = status])
  ELSE last'.result = "BadRequest" /\ UNCHANGED dbVars

\* C27: approveLeaveRequest and rejectLeaveRequest by the owner change a
\* pending LeaveRequest to approved and to rejected, and fail with BadRequest,
\* leaving it unchanged, on an approved or rejected one; with the operations
\* run one at a time, an approved or rejected LeaveRequest never changes its
\* status afterwards.
C27_LeaveDecisionIsFinal ==
  /\ [][last'.op = "approveLeaveRequest" =>
          \A l \in DOMAIN leaveRequests :
            approveLeaveRequest(l, OwnerOf(l.workspaceId)) =>
              LeaveDecisionOutcome(l, "approved")]_vars
  /\ [][last'.op = "rejectLeaveRequest" =>
          \A l \in DOMAIN leaveRequests :
            rejectLeaveRequest(l, OwnerOf(l.workspaceId)) =>
              LeaveDecisionOutcome(l, "rejected")]_vars
  /\ [][\A r \in DOMAIN leaveRequests :
          r.status \in {"approved", "rejected"} =>
            CopiesIn(r, leaveRequests') >= CopiesIn(r, leaveRequests)]_vars

\* The owner's approval of a leave request that is already rejected was
\* refused.
C27_Witness ==
  /\ last.op = "approveLeaveRequest" /\ last.result = "BadRequest"
  /\ \E r \in DOMAIN leaveRequests : r.status = "rejected"
  /\ \A r \in DOMAIN leaveRequests : r.status # "pending"

\* C28: cancelLeaveRequest fails with NotFound on a missing request, with
\* Forbidden for a caller who is not the request's user, the workspace owner
\* included, and with BadRequest on a request that is not pending, each time
\* changing nothing; otherwise it deletes the row; so cancel never removes an
\* approved or rejected LeaveRequest.
C28_CancelLeaveRequest ==
  [][last'.op = "cancelLeaveRequest" =>
      /\ \A l \in LeaveIds, u \in Users :
           cancelLeaveRequest(l, u) =>
             IF l = NoLeave THEN last'.result = "NotFound" /\ UNCHANGED dbVars
             ELSE IF l.userId # u THEN last'.result = "Forbidden" /\ UNCHANGED dbVars
             ELSE IF l.status # "pending"
             THEN last'.result = "BadRequest" /\ UNCHANGED dbVars
             ELSE /\ last'.result = "ok"
                  /\ leaveRequests' = BagRemoveOne(leaveRequests, l)
                  /\ UNCHANGED <<memberVars, rosters, rosterAssignments>>
      /\ \A r \in DOMAIN leaveRequests :
           r.status \in {"approved", "rejected"} =>
             CopiesIn(r, leaveRequests') >= CopiesIn(r, leaveRequests)]_vars

\* The cancel of an approved leave request was refused, the request is still
\* stored, and its user belongs to a workspace of somebody else.
C28_Witness ==
  /\ last.op = "cancelLeaveRequest" /\ last.result = "BadRequest"
  /\ \E r \in DOMAIN leaveRequests :
       r.status = "approved" /\ OwnerOf(r.workspaceId) # r.userId

\* C29: requestLeave gives Forbidden to a caller without an Enrollment in the
\* workspace, its owner included, and BadRequest to an enrolled caller whose
\* endDate is earlier than the startDate, while equal dates pass the test of
\* the dates; no failing call creates a row, and every row created is pending
\* and belongs to an enrolled caller.
C29_RequestLeave ==
  [][last'.op = "requestLeave" =>
      /\ \A w \in 1..LeaveWorkspaces, s \in LeaveDays, e \in LeaveDays, u \in Users :
           requestLeave(w, s, e, u) =>
             IF WorkspaceFindOne(w) = {} THEN last'.result = "NotFound"
             ELSE IF ~Enrolled(enrollments, w, u) THEN last'.result = "Forbidden"
             ELSE IF e < s THEN last'.result = "BadRequest"
             ELSE \/ /\ last'.result = "ok"
                     /\ leaveRequests' = BagAdd(leaveRequests, LeaveRow(w, u, s, e, "pending"))
                  \/ /\ last'.result = "Conflict"
                     /\ \E r \in DOMAIN leaveRequests :
                          /\ r.workspaceId = w /\ r.userId = u /\ r.status = "pending"
                          /\ r.startDate <= e /\ s <= r.endDate
      /\ last'.result # "ok" => UNCHANGED dbVars
      /\ \A r \in DOMAIN leaveRequests' :
           CopiesIn(r, leaveRequests') > CopiesIn(r, leaveRequests) =>
             r.status = "pending" /\ Enrolled(enrollments, r.workspaceId, r.userId)]_vars

\* A leave of one day (startDate equal to endDate) was accepted for a member
\* who is not the owner, while the owner of the workspace holds no enrollment.
C29_Witness ==
  /\ last.op = "requestLeave" /\ last.result = "ok"
  /\ \E r \in DOMAIN leaveRequests :
       /\ r.status = "pending" /\ r.startDate = r.endDate
       /\ r.userId = last.userId /\ OwnerOf(r.workspaceId) # r.userId
       /\ ~Enrolled(enrollments, r.workspaceId, OwnerOf(r.workspaceId))

\* C30: rejectInvitation and cancelInvitation create no Enrollment;
\* acceptInvitation fails with BadRequest on a rejected invitation and with
\* NotFound on one that is no longer stored, creating no Enrollment; and a
\* rejected invitation leaves that status only by being deleted, so that it
\* is never accepted afterwards.
C30_RejectedNeverAccepted ==
  /\ [][last'.op \in {"rejectInvitation", "cancelInvitation"} =>
          enrollments' = enrollments]_vars
  /\ [][last'.op = "acceptInvitation" =>
          \A i \in InvitationIds, u \in Users :
            \A e \in CallerEmails(u) :
              acceptInvitation(i, u, e) =>
                /\ i = NoInvitation =>
                     last'.result = "NotFound" /\ enrollments' = enrollments
                /\ i.status = "rejected" =>
                     last'.result = "BadRequest" /\ enrollments' = enrollments]_vars
  /\ [][\A r \in DOMAIN invitations :
          r.status = "rejected"
          /\ CopiesIn(r, invitations') < CopiesIn(r, invitations) =>
            /\ last'.op = "cancelInvitation"
            /\ invitations' = BagRemoveOne(invitations, r)]_vars

\* The invited user tried to accept the invitation they had rejected: the
\* call was refused, the invitation is still rejected and they hold no
\* enrollment in the workspace.
C30_Witness ==
  /\ last.op = "acceptInvitation" /\ last.result = "BadRequest"
  /\ \E i \in DOMAIN invitations :
       /\ i.status = "rejected"
       /\ \A u \in getUserByEmail(i.inviteeEmail) : ~Enrolled(enrollments, i.workspaceId, u)
       /\ getUserByEmail(i.inviteeEmail) # {}
  /\ \A i \in DOMAIN invitations : i.status = "rejected"

\* C31: deleteRoster by the owner of the workspace succeeds and leaves neither
\* the roster nor an assignment of it, also when the roster had assignments.
C31_DeleteRosterCascades ==
  [][last'.op = "deleteRoster" =>
      \A r \in rosters :
        deleteRoster(r, OwnerOf(r.workspaceId)) =>
          /\ last'.result = "ok"
          /\ r \notin rosters'
          /\ \A a \in rosterAssignments' : a.rosterId # RosterId(r)]_vars

\* C32: every Workspace has one ownerId, the caller of create, and nothing
\* changes it: the rows of the table change only by create, update and
\* remove, create adds a row owned by its caller, and update leaves every
\* ownerId as it was.
C32_OwnerNeverChanges ==
  /\ [](\A w1 \in workspaces, w2 \in workspaces : w1.id = w2.id => w1 = w2)
  /\ [][workspaces' # workspaces => last'.op \in {"create", "update", "remove"}]_vars
  /\ [][last'.op = "create" =>
          \A w \in workspaces' \ workspaces : w.ownerId = last'.userId]_vars
  /\ [][\A w \in workspaces, x \in workspaces' : x.id = w.id => x.ownerId = w.ownerId]_vars

\* User 2 created the workspace and renamed it; user 2 still owns it, and a
\* patch was just refused for a property that is not the name.
C32_Witness ==
  /\ last.op = "update" /\ last.result = "BadRequest"
  /\ \E w \in workspaces : w.ownerId = 2 /\ w.name = "Ward B"

\* C33: in every reachable state no workspace and user have both an Enrollment
\* and a pending EnrollmentRequest, also when the user became enrolled by
\* accepting an invitation.
C33_EnrolledOrPending ==
  \A w \in AllWorkspaceIds, u \in Users :
    ~(Enrolled(enrollments, w, u) /\ PendingCount(enrollmentRequests, w, u) > 0)

\* C34: after any sequence of operations, each run to completion, every
\* UserFavorite points at a workspace that exists and in which its user holds
\* an Enrollment.
C34_FavoriteIsEnrolledWorkspace ==
  \A f \in DOMAIN userFavorites :
    /\ WorkspaceFindOne(f.workspaceId) # {}
    /\ Enrolled(enrollments, f.workspaceId, f.userId)

\* C35: a saveRoster that fails leaves the assignments stored before the call
\* as they were, also when it fails after the owner test, on an input with
\* two assignments of the same user, day and shift period.
C35_FailedSaveKeepsAssignments ==
  [][last'.op = "saveRoster" /\ last'.result # "ok" =>
      rosterAssignments' = rosterAssignments]_vars

\* The roster key of the saveRoster call that has just ended.
SavedRosterId ==
  [workspaceId |-> last'.workspaceId, month |-> last'.args.month, year |-> last'.args.year]

\* C36: saveRoster leaves every stored roster as it is, status, publishedAt
\* and publishedBy included, so a published roster stays published while its
\* assignments are replaced by the non-empty cells of the call; a roster the
\* call creates is a draft with publishedAt and publishedBy empty.
C36_SaveRosterKeepsStatus ==
  [][last'.op = "saveRoster" =>
      /\ \A r \in rosters : r \in rosters'
      /\ \A r \in rosters' \ rosters :
           r.status = "draft" /\ r.publishedAt = "null" /\ r.publishedBy = NoId
      /\ last'.result = "ok" =>
           /\ \E r \in rosters' : RosterId(r) = SavedRosterId
           /\ {a \in rosterAssignments' : a.rosterId = SavedRosterId}
                = {AssignmentRow(SavedRosterId, last'.args.assignments[i]) :
                     i \in {j \in DOMAIN last'.args.assignments :
                              last'.args.assignments[j].dutyType # ""}}]_vars

\* A roster that is published was saved again and holds assignments.
C36_Witness ==
  /\ last.op = "saveRoster" /\ last.result = "ok"
  /\ \E r \in rosters :
       /\ r.workspaceId = last.workspaceId /\ r.month = last.args.month
       /\ r.status = "published" /\ r.publishedAt = "date" /\ r.publishedBy # NoId
       /\ AssignmentsOf(RosterId(r)) # {}

\* C37: when the saveRoster calls in flight for a roster have all finished,
\* the roster holds the non-empty assignments of one of the calls, never the
\* union of two: no call carries more than RaceCells cells, so no roster holds
\* more.
C37_OneSaveWins ==
  (\A slot \in Slots : inflight[slot] = Idle) =>
    \A r \in rosters : Cardinality(AssignmentsOf(RosterId(r))) <= RaceCells

\* C38: in every reachable state every Roster, Invitation and LeaveRequest
\* refers to a Workspace that exists, so none of workspace W remains once
\* remove(W) has deleted it; and a remove that leaves the Workspace row in
\* place has not deleted the workspace's Enrollments.
C38_NoOrphansAfterRemove ==
  /\ [](/\ \A r \in rosters : WorkspaceFindOne(r.workspaceId) # {}
        /\ \A i \in DOMAIN invitations : WorkspaceFindOne(i.workspaceId) # {}
        /\ \A l \in DOMAIN leaveRequests : WorkspaceFindOne(l.workspaceId) # {})
  /\ [][last'.op = "remove" /\ workspaces' = workspaces => enrollments' = enrollments]_vars

====
